---- MODULE Spec2Model ----
(***************************************************************************)
(* Checkpoint / recovery core of the ClaudeCode project-management         *)
(* scripts: the auto-checkpoint daemon (auto_checkpoint.py) and the        *)
(* checkpoint recovery manager (checkpoint_recovery.py).                   *)
(*                                                                         *)
(* Files are modelled by their parsed content.  Wall-clock time `now` is   *)
(* in seconds; file modification times come from `fs_time`, a counter the  *)
(* file system advances on every write, so that modification times order   *)
(* the writes.                                                             *)
(***************************************************************************)
EXTENDS Integers, Sequences, FiniteSets, TLC

VARIABLES
    state_file,        \* progress-state/PROGRESS_STATE.json: <<>> or <<record>>
    checkpoints_dir,   \* progress-state/checkpoints, the files in creation order
    fs_time,           \* modification-time source of the file system
    now,               \* wall clock, seconds
    max_checkpoints,   \* AutoCheckpointDaemon.max_checkpoints (configuration)
    pc,                \* position of each thread inside _create_auto_checkpoint,
                       \* and of the caller's thread inside stop() ("join")
    local,             \* locals of each thread's _create_auto_checkpoint call
    created,           \* history: the checkpoints written, in creation order
    calls,             \* history: number of creation calls started
    last_cleanup,      \* history: what the latest _cleanup_old_checkpoints run did
    project_files,     \* the monitored files of the project tree: path -> content
    snapshots,         \* progress-state/snapshots: the <<checkpoint id, path>> blobs
    backups,           \* progress-state/backups: set of [name, content]
    recovery_log,      \* progress-state/recovery.log, one entry per line
    rec,               \* the recover_from_checkpoint call in progress
    last_validation,   \* history: the latest validate_checkpoint call
    running,           \* AutoCheckpointDaemon.running
    shutdown_event,    \* AutoCheckpointDaemon.shutdown_event is set
    checkpoint_interval,   \* AutoCheckpointDaemon.checkpoint_interval (configuration)
    last_checkpoint_time,  \* AutoCheckpointDaemon.last_checkpoint_time
    last_state_hash,   \* AutoCheckpointDaemon.last_state_hash
    file_change_count, \* AutoCheckpointDaemon.file_change_count
    cp,                \* the _checkpoint_loop thread: position and locals
    mon,               \* the _monitor_loop thread: position and locals
    newer              \* monitored files with st_mtime above the monitor's time marks

storeVars == <<state_file, checkpoints_dir, fs_time, created, last_cleanup>>
createVars == <<pc, local, calls>>
recoverVars == <<project_files, snapshots, backups, recovery_log, rec, last_validation>>
daemonVars == <<running, shutdown_event, checkpoint_interval, last_checkpoint_time,
                last_state_hash, file_change_count, cp, mon, newer>>

vars == <<state_file, checkpoints_dir, fs_time, now, max_checkpoints,
          pc, local, created, calls, last_cleanup,
          project_files, snapshots, backups, recovery_log, rec, last_validation,
          running, shutdown_event, checkpoint_interval, last_checkpoint_time,
          last_state_hash, file_change_count, cp, mon, newer>>

----------------------------------------------------------------------------
(* Bounds of the model *)

MaxCalls == 2          \* SpecCreate: creation calls per behaviour
MaxCreations == 4      \* SpecStore: creations per behaviour
MaxRetention == 2      \* largest configured max_checkpoints
MaxMinutes == 1        \* minutes the wall clock may advance
MaxCheckpoints == 1    \* SpecRecover: checkpoints created per behaviour
MaxRecoveries == 1     \* SpecRecover: recover_from_checkpoint calls per behaviour
MaxDaemonMinutes == 3  \* SpecDaemon: minutes the daemon is observed
MaxIntervalMinutes == 2    \* SpecDaemon: largest configured checkpoint_interval, minutes
MaxStarts == 2         \* SpecLifecycle: calls of start() that start threads
MaxForced == 1         \* SpecLifecycle: creations before a force_checkpoint call

----------------------------------------------------------------------------
(* Data *)

NoFile == <<>>

\* The content of a file between open(path, 'w'), which empties it, and the
\* end of json.dump: not a complete JSON document.
Truncated == [partial |-> TRUE]
NoId == <<>>

Threads == {"loop", "force"}

LoopReasons == {"TIME_BASED", "ACTIVITY_BASED", "STATE_CHANGE"}

\* The monitored project files of the model.
Paths == {"src/app.py", "README.md"}

\* The paths that exist in the project tree.
Existing(files) == {p \in Paths : files[p] # "absent"}

\* The top-level sections of a ProgressRecord the model follows.  A record
\* says which of them it has in its field sections; the fields of a section
\* it lacks hold what .get() gives for them.
StateSections == {"metadata", "current_session", "phases", "checkpoints", "recovery"}

\* The initial ProgressRecord (_create_default_state of the front ends).
DefaultState ==
    [phase |-> 1, task |-> "P1.1.1", progress |-> 0,
     session_id |-> <<"session", 0>>, last_updated |-> 0,
     checkpoints |-> <<>>, total_auto_checkpoints |-> 0,
     last_known_good_state |-> NoId, rollback_available |-> FALSE,
     recovery_history |-> <<>>,
     sections |-> StateSections, reconstruction_source |-> "none"]

\* f"AUTO_CP{checkpoint_count:03d}"
AutoCheckpointId(checkpoint_count) == <<"AUTO_CP", checkpoint_count>>

\* datetime.now().strftime('%Y%m%d_%H%M')
MinuteStamp(t) == t \div 60

\* reason.lower()
Lower(reason) ==
    CASE reason = "TIME_BASED" -> "time_based"
      [] reason = "ACTIVITY_BASED" -> "activity_based"
      [] reason = "STATE_CHANGE" -> "state_change"
      [] reason = "MANUAL_TRIGGER" -> "manual_trigger"

\* f"{checkpoint_id}_{timestamp_str}_{reason.lower()}.json"
CheckpointFileName(checkpoint_id, t, reason) ==
    <<checkpoint_id, MinuteStamp(t), Lower(reason)>>

\* checkpoints_dir.glob('AUTO_CP*.json'): the file name starts with the id.
GlobAuto(dir) == SelectSeq(dir, LAMBDA f : f.name[1][1] = "AUTO_CP")

\* open(path, 'w') + json.dump: an existing name is overwritten, a new name
\* is added to the directory.
WriteFile(dir, file) ==
    IF \E i \in 1..Len(dir) : dir[i].name = file.name
    THEN [i \in 1..Len(dir) |-> IF dir[i].name = file.name THEN file ELSE dir[i]]
    ELSE Append(dir, file)

RECURSIVE InsertByMtime(_, _)
InsertByMtime(f, sorted) ==
    IF sorted = <<>> THEN <<f>>
    ELSE IF f.mtime < Head(sorted).mtime THEN <<f>> \o sorted
    ELSE <<Head(sorted)>> \o InsertByMtime(f, Tail(sorted))

\* list.sort(key=lambda x: x.stat().st_mtime): stable, ascending
RECURSIVE SortByMtime(_)
SortByMtime(files) ==
    IF files = <<>> THEN <<>>
    ELSE InsertByMtime(files[Len(files)], SortByMtime(SubSeq(files, 1, Len(files) - 1)))

Names(files) == {files[i].name : i \in 1..Len(files)}

\* Mutant of OldCheckpoints: the slice [max_checkpoints:], which drops the
\* newest files instead of the oldest.
OldCheckpoints_FromMax(dir, max) ==
    LET auto_checkpoints == SortByMtime(GlobAuto(dir))
    IN IF Len(auto_checkpoints) > max
       THEN SubSeq(auto_checkpoints, max + 1, Len(auto_checkpoints))
       ELSE <<>>

\* Mutant of OldCheckpoints: the slice [:max_checkpoints], which drops the
\* first max files whatever the excess is.
OldCheckpoints_FirstMax(dir, max) ==
    LET auto_checkpoints == SortByMtime(GlobAuto(dir))
    IN IF Len(auto_checkpoints) > max
       THEN SubSeq(auto_checkpoints, 1, max)
       ELSE <<>>

\* auto_checkpoints[:-self.max_checkpoints] when there are more than max
OldCheckpoints(dir, max) ==
    LET auto_checkpoints == SortByMtime(GlobAuto(dir))
    IN IF Len(auto_checkpoints) > max
       THEN SubSeq(auto_checkpoints, 1, Len(auto_checkpoints) - max)
       ELSE <<>>

\* The unlink loop of _cleanup_old_checkpoints.  failAt = 0: every unlink
\* succeeds; failAt = k: the k-th unlink raises, which leaves the loop
\* (the try block encloses the whole loop).
Unlinked(dir, max, failAt) ==
    LET old_checkpoints == OldCheckpoints(dir, max)
    IN IF failAt = 0 THEN Names(old_checkpoints)
       ELSE Names(SubSeq(old_checkpoints, 1, failAt - 1))

CleanupOldCheckpoints(dir, max, failAt) ==
    SelectSeq(dir, LAMBDA f : f.name \notin Unlinked(dir, max, failAt))

\* Mutant of CheckpointData: the embedded full_state is the state after the
\* bookkeeping updates of lines 266-284 instead of the state as loaded.
CheckpointData_EmbedsUpdated(checkpoint_id, reason, state, t, mtime, files_modified) ==
    [name |-> CheckpointFileName(checkpoint_id, t, reason),
     mtime |-> mtime,
     checkpoint_id |-> checkpoint_id,
     trigger |-> reason,
     phase |-> state.phase,
     task |-> state.task,
     completion_percentage |-> state.progress,
     files_modified |-> files_modified,
     validation_status |-> "PENDING",
     timestamp |-> mtime,
     parses |-> TRUE,
     missing |-> {},
     full_state |-> [state EXCEPT
                        !.checkpoints = Append(@, [checkpoint_id |-> checkpoint_id,
                                                   trigger |-> reason]),
                        !.last_known_good_state = checkpoint_id,
                        !.rollback_available = TRUE]]

\* The checkpoint document written at lines 232-264.  timestamp is the time
\* of the write to the microsecond, which orders the documents as their
\* writes; parses and missing say what a later damage to the file left of
\* it: whether it is still JSON, and which required fields it has lost.
CheckpointData(checkpoint_id, reason, state, t, mtime, files_modified) ==
    [name |-> CheckpointFileName(checkpoint_id, t, reason),
     mtime |-> mtime,
     checkpoint_id |-> checkpoint_id,
     trigger |-> reason,
     phase |-> state.phase,
     task |-> state.task,
     completion_percentage |-> state.progress,
     files_modified |-> files_modified,
     validation_status |-> "PENDING",
     timestamp |-> mtime,
     parses |-> TRUE,
     missing |-> {},
     full_state |-> state]

\* _get_recently_modified_files(): the monitored files modified within the
\* last hour.  "live" is a file written within the hour, "old" one written
\* before it; a file restored by shutil.copy2 keeps the modification time
\* of its snapshot.  "unreadable" is a file written within the hour that
\* os.access(path, os.R_OK) refuses; its stat() still works.
RecentlyModifiedFiles(files) == {p \in Paths : files[p] \in {"live", "unreadable"}}

\* History entry for a written checkpoint: its id and file name, and the
\* live ProgressRecord at the time of the write.
Creation(file, live) ==
    [checkpoint_id |-> file.checkpoint_id, name |-> file.name, live |-> live]

\* Lines 266-284: the in-memory state after the bookkeeping updates.
UpdatedState(state, checkpoint_id, reason, checkpoint_count) ==
    [state EXCEPT
        !.checkpoints = Append(@, [checkpoint_id |-> checkpoint_id, trigger |-> reason]),
        !.total_auto_checkpoints = checkpoint_count,
        !.last_known_good_state = checkpoint_id,
        !.rollback_available = TRUE,
        !.sections = @ \cup {"checkpoints", "recovery"}]

\* What a run of _cleanup_old_checkpoints did (history).
CleanupRecord(dir, after, max, failAt, prev, n_created) ==
    [before |-> dir, after |-> after, max |-> max, failAt |-> failAt,
     n_created |-> n_created,
     second |-> prev.max # 0 /\ prev.failAt = 0 /\ prev.after = dir,
     first_deleted |-> Len(prev.before) - Len(prev.after)]

NoCleanup == [before |-> <<>>, after |-> <<>>, max |-> 0, failAt |-> 0,
              n_created |-> 0, second |-> FALSE, first_deleted |-> 0]

----------------------------------------------------------------------------
(* _create_auto_checkpoint, one step per file-system access (SpecCreate) *)

NoValidationResult ==
    [found |-> FALSE, valid |-> FALSE, data_integrity |-> FALSE,
     recovery_feasible |-> FALSE, issues |-> {}, warnings |-> {}]

NoResult ==
    [success |-> FALSE, backup_created |-> FALSE, files_restored |-> {},
     files_failed |-> {}, no_snapshot |-> {}, state_restored |-> FALSE]

\* History of an emergency_recovery call: the ids list_checkpoints returned,
\* the ids it passed to validate_checkpoint and to recover_from_checkpoint.
NoEmergency ==
    [called |-> FALSE, listed |-> <<>>, validated |-> <<>>, recovered |-> <<>>]

NoRecovery ==
    [pc |-> "idle", checkpoint_id |-> NoId, validation |-> NoValidationResult,
     file |-> <<>>, backup_done |-> FALSE, result |-> NoResult, pre |-> <<>>,
     emergency |-> NoEmergency, reconstructed_state |-> <<>>]

\* The latest validate_checkpoint call since the files last changed.
NoValidation ==
    [seq |-> 0, checkpoint_id |-> NoId, result |-> NoValidationResult,
     repeat |-> FALSE, same |-> FALSE]

NoLocal == [reason |-> "none", state |-> NoFile, checkpoint_count |-> 0]

\* last_state_hash = None
NoHash == <<>>

\* The _checkpoint_loop thread before start(): its position, the locals of
\* its latest cycle, and the time its wait(60) ends.  History: count is the
\* value of file_change_count when the cycle in progress took its decision,
\* dropped the part of the counter the latest reset wiped above that value.
NoCp == [pc |-> "none", thread |-> 0, failed |-> FALSE, current_time |-> 0, reason |-> "none", wake |-> 0,
         count |-> 0, dropped |-> 0]

\* The _monitor_loop thread before start(): its position, the counter value
\* it loaded, len(changes) of its latest scan, and the time its wait(60) ends.
NoMon == [pc |-> "none", thread |-> 0, read |-> 0, k |-> 0, wake |-> 0]

\* The monitored files modified after the monitor's last_check, and after the
\* current_time it read last.
NoMarks == [last_check |-> {}, current_time |-> {}]

\* A thread enters _create_auto_checkpoint(reason): the decision loop with
\* one of its three reasons, force_checkpoint with MANUAL_TRIGGER.
Call(t) ==
    /\ pc[t] = "idle"
    /\ calls < MaxCalls
    /\ \E reason \in IF t = "loop" THEN LoopReasons ELSE {"MANUAL_TRIGGER"} :
          local' = [local EXCEPT ![t] = [NoLocal EXCEPT !.reason = reason]]
    /\ pc' = [pc EXCEPT ![t] = "load"]
    /\ calls' = calls + 1
    /\ UNCHANGED <<storeVars, now, max_checkpoints, recoverVars>>
    /\ UNCHANGED daemonVars

\* Lines 220-225: skip when the state file is absent, else json.load it.
Load(t) ==
    /\ pc[t] = "load"
    /\ IF state_file = NoFile
       THEN /\ pc' = [pc EXCEPT ![t] = "idle"]
            /\ local' = [local EXCEPT ![t] = NoLocal]
       ELSE /\ pc' = [pc EXCEPT ![t] = "count"]
            /\ local' = [local EXCEPT ![t].state = state_file]
    /\ UNCHANGED <<storeVars, now, max_checkpoints, calls, recoverVars>>
    /\ UNCHANGED daemonVars

\* Lines 228-229: checkpoint_count = len(glob('AUTO_CP*.json')) + 1
Count(t) ==
    /\ pc[t] = "count"
    /\ local' = [local EXCEPT ![t].checkpoint_count = Len(GlobAuto(checkpoints_dir)) + 1]
    /\ pc' = [pc EXCEPT ![t] = "write"]
    /\ UNCHANGED <<storeVars, now, max_checkpoints, calls, recoverVars>>
    /\ UNCHANGED daemonVars

\* Lines 232-264: build the checkpoint and write its file.
Write(t) ==
    /\ pc[t] = "write"
    /\ LET files_modified == RecentlyModifiedFiles(project_files)
           checkpoint_id == AutoCheckpointId(local[t].checkpoint_count)
           file == CheckpointData(checkpoint_id, local[t].reason,
                                     local[t].state[1], now, fs_time + 1,
                                     files_modified)
          IN /\ checkpoints_dir' = WriteFile(checkpoints_dir, file)
             /\ created' = Append(created, Creation(file, state_file))
    /\ fs_time' = fs_time + 1
    /\ pc' = [pc EXCEPT ![t] = "save"]
    /\ UNCHANGED <<state_file, last_cleanup, now, max_checkpoints, local, calls, recoverVars>>
    /\ UNCHANGED daemonVars

\* Lines 266-288: update the loaded state and write it over the state file.
Save(t) ==
    /\ pc[t] = "save"
    /\ state_file' = <<UpdatedState(local[t].state[1],
                                    AutoCheckpointId(local[t].checkpoint_count),
                                    local[t].reason, local[t].checkpoint_count)>>
    /\ pc' = [pc EXCEPT ![t] = "cleanup"]
    /\ UNCHANGED <<checkpoints_dir, fs_time, created, last_cleanup, now,
                   max_checkpoints, local, calls, recoverVars>>
    /\ UNCHANGED daemonVars

\* Line 293: _cleanup_old_checkpoints(), then return.
Cleanup(t) ==
    /\ pc[t] = "cleanup"
    /\ \E failAt \in 0..Len(OldCheckpoints(checkpoints_dir, max_checkpoints)) :
          /\ checkpoints_dir' = CleanupOldCheckpoints(checkpoints_dir, max_checkpoints, failAt)
          /\ last_cleanup' = CleanupRecord(checkpoints_dir, checkpoints_dir',
                                           max_checkpoints, failAt, last_cleanup,
                                           Len(created))
    /\ pc' = [pc EXCEPT ![t] = "idle"]
    /\ local' = [local EXCEPT ![t] = NoLocal]
    /\ UNCHANGED <<state_file, fs_time, created, now, max_checkpoints, calls, recoverVars>>
    /\ UNCHANGED daemonVars

\* The wall clock reaches the next minute.
TickMinute ==
    /\ MinuteStamp(now) < MaxMinutes
    /\ now' = now + 60
    /\ UNCHANGED <<storeVars, createVars, max_checkpoints, recoverVars>>
    /\ UNCHANGED daemonVars

InitStore ==
    /\ state_file = <<DefaultState>>
    /\ checkpoints_dir = <<>>
    /\ fs_time = 0
    /\ now = 0
    /\ created = <<>>
    /\ last_cleanup = NoCleanup

\* No recovery manager at work: nothing of its files exists.
InitNoRecovery ==
    /\ project_files = [p \in Paths |-> "absent"]
    /\ snapshots = {}
    /\ backups = {}
    /\ recovery_log = <<>>
    /\ rec = NoRecovery
    /\ last_validation = NoValidation

\* __init__, lines 45-57: the daemon as constructed, not started.
InitNoDaemon ==
    /\ running = FALSE
    /\ shutdown_event = FALSE
    /\ checkpoint_interval = 30 * 60
    /\ last_checkpoint_time = 0
    /\ last_state_hash = NoHash
    /\ file_change_count = 0
    /\ cp = NoCp
    /\ mon = NoMon
    /\ newer = NoMarks

InitCreate ==
    /\ InitStore
    /\ InitNoRecovery
    /\ InitNoDaemon
    /\ max_checkpoints \in 1..MaxRetention
    /\ pc = [t \in Threads |-> "idle"]
    /\ local = [t \in Threads |-> NoLocal]
    /\ calls = 0

NextCreate ==
    \/ \E t \in Threads : Call(t)
    \/ \E t \in Threads : Load(t)
    \/ \E t \in Threads : Count(t)
    \/ \E t \in Threads : Write(t)
    \/ \E t \in Threads : Save(t)
    \/ \E t \in Threads : Cleanup(t)
    \/ TickMinute

SpecCreate == InitCreate /\ [][NextCreate]_vars

----------------------------------------------------------------------------
(* checkpoint_save of resume_progress.py (SpecManual) *)

\* The descriptions a caller passes to checkpoint_save.
Descriptions == {"Milestone 1", "milestone_1"}

\* _slugify, lines 349-353: punctuation removed, lower case, runs of blanks,
\* underscores and hyphens turned into one hyphen.
Slugify(description) ==
    CASE description = "Milestone 1" -> "milestone-1"
      [] description = "milestone_1" -> "milestone-1"

\* f"CP{checkpoint_count:03d}"
ManualCheckpointId(checkpoint_count) == <<"CP", checkpoint_count>>

\* load_progress_state, lines 35-45: the parsed file, or a fresh default
\* state when the file is absent or does not parse.
LoadProgressState(file, t) ==
    IF file = NoFile \/ file = <<Truncated>>
    THEN [DefaultState EXCEPT !.session_id = <<"session", MinuteStamp(t)>>,
                              !.last_updated = t]
    ELSE file[1]

\* Lines 159-180: the document checkpoint_save writes.  It has no trigger
\* and no validation_status key ("none").
ManualCheckpointData(checkpoint_id, description, state, t, mtime) ==
    [name |-> <<checkpoint_id, MinuteStamp(t), Slugify(description)>>,
     mtime |-> mtime,
     checkpoint_id |-> checkpoint_id,
     trigger |-> "none",
     phase |-> state.phase,
     task |-> state.task,
     completion_percentage |-> state.progress,
     files_modified |-> {},
     validation_status |-> "none",
     timestamp |-> mtime,
     parses |-> TRUE,
     missing |-> {},
     full_state |-> state]

\* Lines 182-192: the in-memory state after the bookkeeping updates, as
\* save_progress_state stamps and writes it.
ManuallyUpdatedState(state, checkpoint_id, t) ==
    [state EXCEPT
        !.checkpoints = Append(@, [checkpoint_id |-> checkpoint_id, trigger |-> "none"]),
        !.last_known_good_state = checkpoint_id,
        !.last_updated = t,
        !.sections = @ \cup {"checkpoints"}]

\* state["recovery"][...] of line 188 raises KeyError for a state without
\* the section; the except of line 211 then returns status ERROR.
SaveRaises(state) == "recovery" \notin state.sections

\* checkpoint_save(description), lines 151-217, run to completion.  The
\* checkpoint file is written at lines 176-180; when line 188 raises, the
\* state file is not written.
CheckpointSave(description) ==
    /\ Len(created) < MaxCreations
    /\ rec.pc = "idle"
    /\ LET state == LoadProgressState(state_file, now)
           checkpoint_count == Len(state.checkpoints) + 1
           checkpoint_id == ManualCheckpointId(checkpoint_count)
           file == ManualCheckpointData(checkpoint_id, description, state, now,
                                        fs_time + 1)
       IN /\ checkpoints_dir' = WriteFile(checkpoints_dir, file)
          /\ created' = Append(created, Creation(file, state_file))
          /\ fs_time' = fs_time + 1
          /\ state_file' = IF SaveRaises(state) THEN state_file
                           ELSE <<ManuallyUpdatedState(state, checkpoint_id, now)>>
    /\ UNCHANGED <<last_cleanup, now, max_checkpoints, createVars, recoverVars>>
    /\ UNCHANGED daemonVars

----------------------------------------------------------------------------
(* The checkpoint store used by one thread at a time (SpecStore) *)

\* _create_auto_checkpoint(reason) run to completion, as force_checkpoint or
\* a decision cycle runs it when no other creation is in progress.  It
\* changes the store only.
CreateAutoCheckpoint(reason) ==
    IF state_file = NoFile \/ state_file = <<Truncated>>
    THEN UNCHANGED storeVars
    ELSE LET files_modified == RecentlyModifiedFiles(project_files)
             state == state_file[1]
             checkpoint_count == Len(GlobAuto(checkpoints_dir)) + 1
             checkpoint_id == AutoCheckpointId(checkpoint_count)
             file == CheckpointData(checkpoint_id, reason, state, now, fs_time + 1,
                                    files_modified)
             written == WriteFile(checkpoints_dir, file)
         IN /\ created' = Append(created, Creation(file, state_file))
            /\ fs_time' = fs_time + 1
            /\ state_file' = <<UpdatedState(state, checkpoint_id, reason, checkpoint_count)>>
            /\ \E failAt \in 0..Len(OldCheckpoints(written, max_checkpoints)) :
                  /\ checkpoints_dir' = CleanupOldCheckpoints(written, max_checkpoints, failAt)
                  /\ last_cleanup' = CleanupRecord(written, checkpoints_dir',
                                                   max_checkpoints, failAt, last_cleanup,
                                                   Len(created'))

\* force_checkpoint(), lines 332-336
ForceCheckpoint ==
    /\ Len(created) < MaxCreations
    /\ CreateAutoCheckpoint("MANUAL_TRIGGER")
    /\ UNCHANGED <<now, max_checkpoints, createVars, recoverVars>>
    /\ UNCHANGED daemonVars

\* pruneRetention on its own: _cleanup_old_checkpoints() called once more.
CleanupCall ==
    /\ last_cleanup.max # 0
    /\ ~last_cleanup.second
    /\ \E failAt \in 0..Len(OldCheckpoints(checkpoints_dir, max_checkpoints)) :
          /\ checkpoints_dir' = CleanupOldCheckpoints(checkpoints_dir, max_checkpoints, failAt)
          /\ last_cleanup' = CleanupRecord(checkpoints_dir, checkpoints_dir',
                                           max_checkpoints, failAt, last_cleanup,
                                           Len(created))
    /\ UNCHANGED <<state_file, fs_time, created, now, max_checkpoints, createVars, recoverVars>>
    /\ UNCHANGED daemonVars

NextStore ==
    \/ ForceCheckpoint
    \/ CleanupCall
    \/ TickMinute

SpecStore == InitCreate /\ [][NextStore]_vars

\* Manual and automatic checkpoints taken one after the other.
NextManual ==
    \/ \E description \in Descriptions : CheckpointSave(description)
    \/ ForceCheckpoint
    \/ TickMinute

SpecManual == InitCreate /\ [][NextManual]_vars

----------------------------------------------------------------------------
(* The recovery manager (checkpoint_recovery.py) *)

\* Sample contents of the ProgressRecord's business fields, as the front
\* ends write them.
Profiles ==
    { [phase |-> 1, task |-> "P1.1.1", progress |-> 0],
      [phase |-> 2, task |-> "P2.1.1", progress |-> 75] }

\* checkpoints_dir.glob('*.json')
GlobAll(dir) == dir

\* The sections validate_checkpoint looks for in the embedded full_state.
RequiredStateSections == {"metadata", "current_session", "phases"}

\* The fields validate_checkpoint requires of a checkpoint document.
RequiredFields == {"checkpoint_id", "timestamp", "description", "phase", "task"}

\* data.get('checkpoint', {}).get('checkpoint_id'): NoId for None.
DocumentId(f) == IF "checkpoint_id" \in f.missing THEN NoId ELSE f.checkpoint_id

\* _find_checkpoint_file: the first file, in directory order, whose embedded
\* checkpoint_id is the one asked for; <<>> for None.
FindCheckpointFile(dir, checkpoint_id) ==
    LET hits == SelectSeq(GlobAll(dir), LAMBDA f : /\ f.parses
                                                   /\ DocumentId(f) = checkpoint_id)
    IN IF hits = <<>> THEN <<>> ELSE <<Head(hits)>>

\* files_modified + files_created of a checkpoint document
ReferencedFiles(file) == file.files_modified

\* Mutant of ValidateCheckpoint: data_integrity is set whether or not a
\* required field is missing.
ValidateCheckpoint_NoFieldCheck(dir, files, checkpoint_id) ==
    LET checkpoint_file == FindCheckpointFile(dir, checkpoint_id)
    IN IF checkpoint_file = <<>>
       THEN [NoValidationResult EXCEPT !.issues = {"not_found"}]
       ELSE LET data_integrity == TRUE
                issues == {}
                has_critical_issues == issues # {}
                has_file_issues ==
                    \E p \in ReferencedFiles(checkpoint_file[1]) : files[p] = "absent"
                valid == ~has_critical_issues /\ data_integrity
                missing_sections ==
                    RequiredStateSections \ checkpoint_file[1].full_state.sections
                warnings ==
                    (IF missing_sections # {} THEN {"missing_sections"} ELSE {})
                       \cup (IF has_file_issues THEN {"files_missing"} ELSE {})
            IN [found |-> TRUE, valid |-> valid, data_integrity |-> data_integrity,
                recovery_feasible |-> valid /\ ~has_file_issues, issues |-> issues,
                warnings |-> warnings]

\* validate_checkpoint, lines 77-147.  issues holds the kinds of the entries
\* of validation_result['issues'].
ValidateCheckpoint(dir, files, checkpoint_id) ==
    LET checkpoint_file == FindCheckpointFile(dir, checkpoint_id)
    IN IF checkpoint_file = <<>>
       THEN [NoValidationResult EXCEPT !.issues = {"not_found"}]
       ELSE LET missing_fields == RequiredFields \cap checkpoint_file[1].missing
                data_integrity == missing_fields = {}
                issues == IF missing_fields # {} THEN {"missing_fields"} ELSE {}
                has_critical_issues == issues # {}
                has_file_issues ==
                    \E p \in ReferencedFiles(checkpoint_file[1]) : files[p] = "absent"
                valid == ~has_critical_issues /\ data_integrity
                missing_sections ==
                    RequiredStateSections \ checkpoint_file[1].full_state.sections
                warnings ==
                    (IF missing_sections # {} THEN {"missing_sections"} ELSE {})
                       \cup (IF has_file_issues THEN {"files_missing"} ELSE {})
            IN [found |-> TRUE, valid |-> valid, data_integrity |-> data_integrity,
                recovery_feasible |-> valid /\ ~has_file_issues, issues |-> issues,
                warnings |-> warnings]

\* Ids a caller may ask for: those of the checkpoints written so far, and
\* one that never existed.
KnownIds == {created[i].checkpoint_id : i \in 1..Len(created)} \cup {AutoCheckpointId(0)}

\* Mutant of Validate: the call records its verdict in the checkpoint file's
\* validation_status.
Validate_Persisting(checkpoint_id) ==
    /\ rec.pc = "idle"
    /\ LET result == ValidateCheckpoint(checkpoints_dir, project_files, checkpoint_id)
           repeat == /\ last_validation.seq # 0
                     /\ last_validation.checkpoint_id = checkpoint_id
       IN /\ last_validation' =
                 [seq |-> IF last_validation.seq = 1 THEN 2 ELSE 1,
                  checkpoint_id |-> checkpoint_id, result |-> result,
                  repeat |-> repeat,
                  same |-> repeat /\ result = last_validation.result]
          /\ checkpoints_dir' =
                 [i \in 1..Len(checkpoints_dir) |->
                     IF checkpoints_dir[i].checkpoint_id = checkpoint_id
                     THEN [checkpoints_dir[i] EXCEPT
                              !.validation_status = IF result.valid THEN "VALID"
                                                    ELSE "INVALID"]
                     ELSE checkpoints_dir[i]]
    /\ UNCHANGED <<state_file, fs_time, created, last_cleanup, createVars, now,
                   max_checkpoints, project_files, snapshots, backups, recovery_log, rec>>
    /\ UNCHANGED daemonVars

\* validate_checkpoint(checkpoint_id) called on its own.
Validate(checkpoint_id) ==
    /\ rec.pc = "idle"
    /\ LET result == ValidateCheckpoint(checkpoints_dir, project_files, checkpoint_id)
           repeat == /\ last_validation.seq # 0
                     /\ last_validation.checkpoint_id = checkpoint_id
       IN last_validation' =
              [seq |-> IF last_validation.seq = 1 THEN 2 ELSE 1,
               checkpoint_id |-> checkpoint_id, result |-> result,
               repeat |-> repeat,
               same |-> repeat /\ result = last_validation.result]
    /\ UNCHANGED <<storeVars, createVars, now, max_checkpoints,
                   project_files, snapshots, backups, recovery_log, rec>>
    /\ UNCHANGED daemonVars

\* Mutant of CreateRecoveryBackup: reports success without copying.
CreateRecoveryBackup_NoCopy(dir, state, t) == dir

\* _create_recovery_backup, lines 377-392: the backups directory after the
\* copy.  pre_recovery_<%Y%m%d_%H%M%S>.json is named by the second.
CreateRecoveryBackup(dir, state, t) ==
    IF state = NoFile THEN dir
    ELSE {b \in dir : b.name # <<"pre_recovery", t>>}
            \cup {[name |-> <<"pre_recovery", t>>, content |-> state[1]]}

\* Lines 186-200: the checkpoint's full_state with the recovery stamps.
RestoredState(full_state, checkpoint_id, t, backup_success) ==
    [full_state EXCEPT
        !.last_updated = t,
        !.session_id = <<"recovery", MinuteStamp(t)>>,
        !.recovery_history = Append(@, [recovered_from |-> checkpoint_id,
                                        previous_state_backed_up |-> backup_success])]

\* Mutant of RecoverCall: a checkpoint that is found is recovered from
\* whatever its validation says.
RecoverCall_NoGate(checkpoint_id) ==
    /\ rec.pc = "idle"
    /\ Len(recovery_log) < MaxRecoveries
    /\ LET validation == ValidateCheckpoint(checkpoints_dir, project_files, checkpoint_id)
       IN rec' = [NoRecovery EXCEPT
                     !.pc = IF validation.found THEN "backup" ELSE "done",
                     !.checkpoint_id = checkpoint_id,
                     !.validation = validation,
                     !.file = FindCheckpointFile(checkpoints_dir, checkpoint_id),
                     !.pre = <<state_file, project_files, backups, recovery_log>>]
    /\ UNCHANGED <<storeVars, createVars, now, max_checkpoints,
                   project_files, snapshots, backups, recovery_log>>
    /\ last_validation' = NoValidation
    /\ UNCHANGED daemonVars

\* Lines 162-176: validate; reject an infeasible checkpoint, else load it.
RecoverCall(checkpoint_id) ==
    /\ rec.pc = "idle"
    /\ Len(recovery_log) < MaxRecoveries
    /\ LET validation == ValidateCheckpoint(checkpoints_dir, project_files, checkpoint_id)
       IN rec' = [NoRecovery EXCEPT
                     !.pc = IF validation.recovery_feasible THEN "backup" ELSE "done",
                     !.checkpoint_id = checkpoint_id,
                     !.validation = validation,
                     !.file = FindCheckpointFile(checkpoints_dir, checkpoint_id),
                     !.pre = <<state_file, project_files, backups, recovery_log>>]
    /\ UNCHANGED <<storeVars, createVars, now, max_checkpoints,
                   project_files, snapshots, backups, recovery_log>>
    /\ last_validation' = NoValidation
    /\ UNCHANGED daemonVars

\* Lines 178-183: back the live state up; a copy that raises is reported
\* in backup_created and does not stop the recovery.
RecoverBackup ==
    /\ rec.pc = "backup"
    /\ \E copied \in BOOLEAN :
          /\ backups' = IF copied THEN CreateRecoveryBackup(backups, state_file, now)
                        ELSE backups
          /\ rec' = [rec EXCEPT !.pc = "restore", !.backup_done = TRUE,
                                !.result.backup_created = copied \/ state_file = NoFile]
    /\ UNCHANGED <<storeVars, createVars, now, max_checkpoints,
                   project_files, snapshots, recovery_log>>
    /\ last_validation' = NoValidation
    /\ UNCHANGED daemonVars

\* full_state['metadata'][...] and full_state['current_session'][...] of
\* lines 188-190 raise KeyError for an embedded state without the section.
StampRaises(full_state) ==
    ~({"metadata", "current_session"} \subseteq full_state.sections)

\* Lines 185-210 when json.dump raises after open(state_file, 'w') emptied
\* the file (an I/O error of the write): the exception is caught at line
\* 209, state_restored stays False, and the state file is left incomplete.
RecoverRestoreStateTorn ==
    /\ rec.pc = "restore"
    /\ ~StampRaises(rec.file[1].full_state)
    /\ state_file' = <<Truncated>>
    /\ rec' = [rec EXCEPT !.pc = "files", !.result.state_restored = FALSE]
    /\ UNCHANGED <<checkpoints_dir, fs_time, created, last_cleanup, createVars, now,
                   max_checkpoints, project_files, snapshots, backups, recovery_log>>
    /\ last_validation' = NoValidation
    /\ UNCHANGED daemonVars

\* Lines 185-210: stamp the embedded state and write it over the state file.
\* An exception before the write (a KeyError of the stamping, or
\* open(state_file, 'w') refused) is caught at line 209: the state file
\* stays and state_restored stays False.
RecoverRestoreState ==
    /\ rec.pc = "restore"
    /\ \E written \in IF StampRaises(rec.file[1].full_state) THEN {FALSE} ELSE BOOLEAN :
          /\ state_file' = IF written
                           THEN <<RestoredState(rec.file[1].full_state,
                                                rec.checkpoint_id, now,
                                                rec.result.backup_created)>>
                           ELSE state_file
          /\ rec' = [rec EXCEPT !.pc = "files", !.result.state_restored = written]
    /\ UNCHANGED <<checkpoints_dir, fs_time, created, last_cleanup, createVars, now,
                   max_checkpoints, project_files, snapshots, backups, recovery_log>>
    /\ last_validation' = NoValidation
    /\ UNCHANGED daemonVars

\* Mutant of RecoverFiles: the first copy that raises ends the loop, and the
\* files not yet processed are left out of the result.
RecoverFiles_StopsAtFailure ==
    /\ rec.pc = "files"
    /\ LET files_to_restore == ReferencedFiles(rec.file[1])
           snapshotted == {p \in files_to_restore : <<rec.checkpoint_id, p>> \in snapshots}
       IN \E failed \in SUBSET snapshotted :
             LET restored == IF failed = {} THEN snapshotted ELSE {}
             IN /\ project_files' = [p \in Paths |->
                                        IF p \in restored THEN "snapshot"
                                        ELSE project_files[p]]
                /\ rec' = [rec EXCEPT !.pc = "log",
                                      !.result.files_restored = restored,
                                      !.result.files_failed = failed,
                                      !.result.no_snapshot =
                                          IF failed = {}
                                          THEN files_to_restore \ snapshotted
                                          ELSE {}]
    /\ UNCHANGED <<storeVars, createVars, now, max_checkpoints,
                   snapshots, backups, recovery_log>>
    /\ last_validation' = NoValidation
    /\ UNCHANGED daemonVars

\* Lines 212-229: copy every snapshot found over its live file; a copy that
\* raises puts the file in files_failed and the loop goes on.  no_snapshot
\* holds the files named in a "No snapshot found" message.
RecoverFiles ==
    /\ rec.pc = "files"
    /\ LET files_to_restore == ReferencedFiles(rec.file[1])
           snapshotted == {p \in files_to_restore : <<rec.checkpoint_id, p>> \in snapshots}
       IN \E failed \in SUBSET snapshotted :
             /\ project_files' = [p \in Paths |->
                                     IF p \in snapshotted \ failed THEN "snapshot"
                                     ELSE project_files[p]]
             /\ rec' = [rec EXCEPT !.pc = "log",
                                   !.result.files_restored = snapshotted \ failed,
                                   !.result.files_failed = failed,
                                   !.result.no_snapshot =
                                       files_to_restore \ snapshotted]
    /\ UNCHANGED <<storeVars, createVars, now, max_checkpoints,
                   snapshots, backups, recovery_log>>
    /\ last_validation' = NoValidation
    /\ UNCHANGED daemonVars

\* Mutant of RecoverLog: success looks at state_restored only.
RecoverLog_StateOnly ==
    /\ rec.pc = "log"
    /\ recovery_log' = Append(recovery_log,
                              [checkpoint_id |-> rec.checkpoint_id,
                               success |-> rec.result.success,
                               files_restored |-> Cardinality(rec.result.files_restored),
                               files_failed |-> Cardinality(rec.result.files_failed)])
    /\ rec' = [rec EXCEPT !.pc = "done",
                          !.result.success = rec.result.state_restored]
    /\ UNCHANGED <<storeVars, createVars, now, max_checkpoints,
                   project_files, snapshots, backups>>
    /\ last_validation' = NoValidation
    /\ UNCHANGED daemonVars

\* Lines 231-243: log the operation, then work out success.
RecoverLog ==
    /\ rec.pc = "log"
    /\ recovery_log' = Append(recovery_log,
                              [checkpoint_id |-> rec.checkpoint_id,
                               success |-> rec.result.success,
                               files_restored |-> Cardinality(rec.result.files_restored),
                               files_failed |-> Cardinality(rec.result.files_failed)])
    /\ rec' = [rec EXCEPT !.pc = "done",
                          !.result.success = /\ rec.result.state_restored
                                             /\ rec.result.files_failed = {}]
    /\ UNCHANGED <<storeVars, createVars, now, max_checkpoints,
                   project_files, snapshots, backups>>
    /\ last_validation' = NoValidation
    /\ UNCHANGED daemonVars

\* Line 249 (and 168): the result goes back to the caller.
RecoverReturn ==
    /\ rec.pc = "done"
    /\ rec' = NoRecovery
    /\ UNCHANGED <<storeVars, createVars, now, max_checkpoints,
                   project_files, snapshots, backups, recovery_log>>
    /\ last_validation' = NoValidation
    /\ UNCHANGED daemonVars

\* force_checkpoint() between recoveries.
RecoveryCheckpoint ==
    /\ rec.pc = "idle"
    /\ Len(created) < MaxCheckpoints
    /\ CreateAutoCheckpoint("MANUAL_TRIGGER")
    /\ UNCHANGED <<now, max_checkpoints, createVars, project_files, snapshots,
                   backups, recovery_log, rec>>
    /\ last_validation' = NoValidation
    /\ UNCHANGED daemonVars

\* The front ends rewrite the ProgressRecord's business fields: the work
\* moves on to a later phase.
EditState ==
    /\ rec.pc = "idle"
    /\ state_file # NoFile
    /\ \E profile \in Profiles :
          /\ profile.phase > state_file[1].phase
          /\ state_file' = <<[state_file[1] EXCEPT !.phase = profile.phase,
                                                   !.task = profile.task,
                                                   !.progress = profile.progress]>>
    /\ UNCHANGED <<checkpoints_dir, fs_time, created, last_cleanup, createVars, now,
                   max_checkpoints, project_files, snapshots, backups, recovery_log,
                   rec>>
    /\ last_validation' = NoValidation
    /\ UNCHANGED daemonVars

\* The state file is lost.
DeleteState ==
    /\ rec.pc = "idle"
    /\ state_file # NoFile
    /\ checkpoints_dir # <<>>
    /\ state_file' = NoFile
    /\ UNCHANGED <<checkpoints_dir, fs_time, created, last_cleanup, createVars, now,
                   max_checkpoints, project_files, snapshots, backups, recovery_log,
                   rec>>
    /\ last_validation' = NoValidation
    /\ UNCHANGED daemonVars

\* A project file is written, or removed.
ChangeFile(p) ==
    /\ rec.pc = "idle"
    /\ project_files' = [project_files EXCEPT
                            ![p] = IF @ = "absent" THEN "live" ELSE "absent"]
    /\ UNCHANGED <<storeVars, createVars, now, max_checkpoints,
                   snapshots, backups, recovery_log, rec>>
    /\ last_validation' = NoValidation
    /\ UNCHANGED daemonVars

\* A byte snapshot of a referenced file is stored for a checkpoint.
TakeSnapshot(checkpoint_id, p) ==
    /\ rec.pc = "idle"
    /\ snapshots = {}
    /\ \E i \in 1..Len(checkpoints_dir) :
          /\ checkpoints_dir[i].checkpoint_id = checkpoint_id
          /\ p \in ReferencedFiles(checkpoints_dir[i])
    /\ snapshots' = snapshots \cup {<<checkpoint_id, p>>}
    /\ UNCHANGED <<storeVars, createVars, now, max_checkpoints,
                   project_files, backups, recovery_log, rec>>
    /\ last_validation' = NoValidation
    /\ UNCHANGED daemonVars

\* Byte snapshots of several referenced files are stored for a checkpoint.
TakeSnapshots(checkpoint_id, ps) ==
    /\ rec.pc = "idle"
    /\ snapshots = {}
    /\ ps # {}
    /\ \E i \in 1..Len(checkpoints_dir) :
          /\ checkpoints_dir[i].checkpoint_id = checkpoint_id
          /\ ps \subseteq ReferencedFiles(checkpoints_dir[i])
    /\ snapshots' = {<<checkpoint_id, p>> : p \in ps}
    /\ UNCHANGED <<storeVars, createVars, now, max_checkpoints,
                   project_files, backups, recovery_log, rec>>
    /\ last_validation' = NoValidation
    /\ UNCHANGED daemonVars

InitRecover ==
    /\ InitStore
    /\ max_checkpoints = MaxRetention
    /\ pc = [t \in Threads |-> "idle"]
    /\ local = [t \in Threads |-> NoLocal]
    /\ calls = 0
    /\ project_files \in [Paths -> {"absent", "old", "live"}]
    /\ snapshots = {}
    /\ backups = {}
    /\ recovery_log = <<>>
    /\ rec = NoRecovery
    /\ last_validation = NoValidation
    /\ InitNoDaemon

NextRecover ==
    \/ \E id \in KnownIds : RecoverCall(id)
    \/ RecoverBackup
    \/ RecoverRestoreState
    \/ RecoverFiles
    \/ RecoverLog
    \/ RecoverReturn
    \/ RecoveryCheckpoint
    \/ EditState
    \/ DeleteState
    \/ \E p \in Paths : ChangeFile(p)
    \/ \E id \in KnownIds, p \in Paths : TakeSnapshot(id, p)

SpecRecover == InitRecover /\ [][NextRecover]_vars

\* recover_from_checkpoint for checkpoints with snapshots of several files.
NextRestore ==
    \/ \E id \in KnownIds : RecoverCall(id)
    \/ RecoverBackup
    \/ RecoverRestoreState
    \/ RecoverFiles
    \/ RecoverLog
    \/ RecoverReturn
    \/ RecoveryCheckpoint
    \/ \E p \in Paths : ChangeFile(p)
    \/ \E id \in KnownIds, ps \in SUBSET Paths : TakeSnapshots(id, ps)

SpecRestore == InitRecover /\ [][NextRestore]_vars

----------------------------------------------------------------------------
(* rebuild_from_files (SpecRebuild) *)

\* What the file analysis of lines 285-315 finds: estimated_progress and
\* probable_task for no scripts, for resume.py alone, for three scripts.
Analyses ==
    { [estimated_progress |-> 0, probable_task |-> "UNKNOWN"],
      [estimated_progress |-> 15, probable_task |-> "UNKNOWN"],
      [estimated_progress |-> 15, probable_task |-> "P1.1.3"] }

\* Lines 317-346: the synthesized record.  It has the metadata, the
\* current_session and a rebuild_info section, and no other.
ReconstructedState(analysis, t) ==
    [phase |-> 1, task |-> analysis.probable_task,
     progress |-> analysis.estimated_progress,
     session_id |-> <<"rebuilt", MinuteStamp(t)>>, last_updated |-> t,
     checkpoints |-> <<>>, total_auto_checkpoints |-> 0,
     last_known_good_state |-> NoId, rollback_available |-> FALSE,
     recovery_history |-> <<>>,
     sections |-> {"metadata", "current_session"},
     reconstruction_source |-> "FILE_ANALYSIS"]

\* Mutant of CorruptedStateBackup: nothing is copied.
CorruptedStateBackup_NoCopy(dir, state, t) == dir

\* Lines 349-351: the backups directory after the copy of the state file to
\* corrupted_state_<%Y%m%d_%H%M%S>.json, a name by the second.
CorruptedStateBackup(dir, state, t) ==
    IF state = NoFile THEN dir
    ELSE {b \in dir : b.name # <<"corrupted_state", t>>}
            \cup {[name |-> <<"corrupted_state", t>>, content |-> state[1]]}

\* Lines 273-351: analyse the files, build the record and archive the state
\* file.  A copy that raises ends the call at line 359.  The call is made
\* on a record that is not itself a rebuilt one.
RebuildCall ==
    /\ rec.pc = "idle"
    /\ IF state_file = NoFile \/ state_file = <<Truncated>> THEN TRUE
       ELSE state_file[1].reconstruction_source # "FILE_ANALYSIS"
    /\ \E analysis \in Analyses,
          copied \in IF state_file = NoFile THEN {TRUE} ELSE BOOLEAN :
          /\ backups' = IF copied THEN CorruptedStateBackup(backups, state_file, now)
                        ELSE backups
          /\ rec' = [NoRecovery EXCEPT
                        !.pc = IF copied THEN "rebuild" ELSE "rebuilt",
                        !.backup_done = copied,
                        !.reconstructed_state = <<ReconstructedState(analysis, now)>>,
                        !.pre = <<state_file, project_files, backups, recovery_log>>]
    /\ UNCHANGED <<storeVars, createVars, now, max_checkpoints,
                   project_files, snapshots, recovery_log>>
    /\ last_validation' = NoValidation
    /\ UNCHANGED daemonVars

\* Lines 353-357: write the synthesized record over the state file; an
\* open(state_file, 'w') that is refused ends the call at line 359.
RebuildWrite ==
    /\ rec.pc = "rebuild"
    /\ \E written \in BOOLEAN :
          /\ state_file' = IF written THEN rec.reconstructed_state ELSE state_file
          /\ rec' = [rec EXCEPT !.pc = "rebuilt", !.result.success = written]
    /\ UNCHANGED <<checkpoints_dir, fs_time, created, last_cleanup, createVars, now,
                   max_checkpoints, project_files, snapshots, backups, recovery_log>>
    /\ last_validation' = NoValidation
    /\ UNCHANGED daemonVars

\* Line 363: rebuild_result goes back to the caller.
RebuildReturn ==
    /\ rec.pc = "rebuilt"
    /\ rec' = NoRecovery
    /\ UNCHANGED <<storeVars, createVars, now, max_checkpoints,
                   project_files, snapshots, backups, recovery_log>>
    /\ last_validation' = NoValidation
    /\ UNCHANGED daemonVars

\* Rebuilds, with checkpoints taken before and after them.
NextRebuild ==
    \/ RebuildCall
    \/ RebuildWrite
    \/ RebuildReturn
    \/ RecoveryCheckpoint
    \/ DeleteState
    \/ TickMinute

SpecRebuild == InitRecover /\ [][NextRebuild]_vars

\* checkpoint_save before and after a rebuild.
NextSave ==
    \/ RebuildCall
    \/ RebuildWrite
    \/ RebuildReturn
    \/ \E description \in Descriptions : CheckpointSave(description)
    \/ TickMinute

SpecSave == InitRecover /\ [][NextSave]_vars

\* Recoveries and rebuilds one after the other, in the same second or a
\* minute apart.
NextBackups ==
    \/ \E id \in KnownIds : RecoverCall(id)
    \/ RecoverBackup
    \/ RecoverRestoreState
    \/ RecoverFiles
    \/ RecoverLog
    \/ RecoverReturn
    \/ RecoveryCheckpoint
    \/ RebuildCall
    \/ RebuildWrite
    \/ RebuildReturn
    \/ TickMinute

SpecBackups == InitRecover /\ [][NextBackups]_vars

\* A checkpoint file is damaged: the embedded full_state loses a section.
StripSection(i, section) ==
    /\ rec.pc = "idle"
    /\ i \in 1..Len(checkpoints_dir)
    /\ checkpoints_dir[i].parses
    /\ checkpoints_dir[i].full_state.sections = StateSections
    /\ section \in RequiredStateSections
    /\ checkpoints_dir' = [checkpoints_dir EXCEPT ![i].full_state.sections = @ \ {section}]
    /\ UNCHANGED <<state_file, fs_time, created, last_cleanup, createVars, now,
                   max_checkpoints, project_files, snapshots, backups, recovery_log, rec>>
    /\ last_validation' = NoValidation
    /\ UNCHANGED daemonVars

\* recover_from_checkpoint when the restore of the state can fail.
NextTorn ==
    \/ \E id \in KnownIds : RecoverCall(id)
    \/ RecoverBackup
    \/ RecoverRestoreState
    \/ RecoverRestoreStateTorn
    \/ RecoverFiles
    \/ RecoverLog
    \/ RecoverReturn
    \/ RecoveryCheckpoint
    \/ \E p \in Paths : ChangeFile(p)
    \/ \E id \in KnownIds, p \in Paths : TakeSnapshot(id, p)
    \/ \E i \in 1..MaxCheckpoints, section \in RequiredStateSections : StripSection(i, section)

SpecTorn == InitRecover /\ [][NextTorn]_vars

----------------------------------------------------------------------------
(* emergency_recovery (SpecEmergency) *)

\* Bound: checkpoints created per behaviour of SpecEmergency.
MaxStored == 3

\* The id list_checkpoints reports for a document without checkpoint_id.
UnknownId == <<"UNKNOWN", 0>>

\* The entry list_checkpoints builds for a document.  A document without
\* timestamp gets '', which sorts below every time.
ListEntry(f) ==
    [id |-> IF "checkpoint_id" \in f.missing THEN UnknownId ELSE f.checkpoint_id,
     timestamp |-> IF "timestamp" \in f.missing THEN 0 ELSE f.timestamp]

\* Lines 51-67: the entries appended before a json.load raises; the try
\* block encloses the whole loop, so the first unparsable file ends it.
RECURSIVE ListedBeforeError(_)
ListedBeforeError(files) ==
    IF files = <<>> \/ ~Head(files).parses THEN <<>>
    ELSE <<ListEntry(Head(files))>> \o ListedBeforeError(Tail(files))

RECURSIVE InsertByTimestampDesc(_, _)
InsertByTimestampDesc(e, sorted) ==
    IF sorted = <<>> THEN <<e>>
    ELSE IF e.timestamp > Head(sorted).timestamp THEN <<e>> \o sorted
    ELSE <<Head(sorted)>> \o InsertByTimestampDesc(e, Tail(sorted))

\* checkpoints.sort(key=lambda x: x['timestamp'], reverse=True): stable
RECURSIVE SortByTimestampDesc(_)
SortByTimestampDesc(entries) ==
    IF entries = <<>> THEN <<>>
    ELSE InsertByTimestampDesc(entries[Len(entries)],
                               SortByTimestampDesc(SubSeq(entries, 1, Len(entries) - 1)))

\* list_checkpoints, lines 47-75
ListCheckpoints(dir) == SortByTimestampDesc(ListedBeforeError(GlobAll(dir)))

\* emergency_recovery, lines 251-271, up to the entry of the
\* recover_from_checkpoint call it makes (lines 162-176), which goes on with
\* RecoverBackup.
EmergencyRecovery ==
    /\ rec.pc = "idle"
    /\ Len(recovery_log) < MaxRecoveries
    /\ LET checkpoints == ListCheckpoints(checkpoints_dir)
           Validation(i) == ValidateCheckpoint(checkpoints_dir, project_files,
                                               checkpoints[i].id)
           feasible == {i \in 1..Len(checkpoints) : Validation(i).recovery_feasible}
           first == IF feasible = {} THEN 0
                    ELSE CHOOSE i \in feasible : \A k \in feasible : i <= k
           last == IF first = 0 THEN Len(checkpoints) ELSE first
           emergency == [called |-> TRUE,
                         listed |-> [i \in 1..Len(checkpoints) |-> checkpoints[i].id],
                         validated |-> [i \in 1..last |-> checkpoints[i].id],
                         recovered |-> IF first = 0 THEN <<>>
                                       ELSE <<checkpoints[first].id>>]
       IN rec' = IF first = 0
                 THEN [NoRecovery EXCEPT
                          !.pc = "done",
                          !.emergency = emergency,
                          !.pre = <<state_file, project_files, backups, recovery_log>>]
                 ELSE [NoRecovery EXCEPT
                          !.pc = "backup",
                          !.checkpoint_id = checkpoints[first].id,
                          !.validation = Validation(first),
                          !.file = FindCheckpointFile(checkpoints_dir,
                                                      checkpoints[first].id),
                          !.emergency = emergency,
                          !.pre = <<state_file, project_files, backups, recovery_log>>]
    /\ UNCHANGED <<storeVars, createVars, now, max_checkpoints,
                   project_files, snapshots, backups, recovery_log>>
    /\ last_validation' = NoValidation
    /\ UNCHANGED daemonVars

\* force_checkpoint() before an emergency.
EmergencyCheckpoint ==
    /\ rec.pc = "idle"
    /\ Len(created) < MaxStored
    /\ CreateAutoCheckpoint("MANUAL_TRIGGER")
    /\ UNCHANGED <<now, max_checkpoints, createVars, project_files, snapshots,
                   backups, recovery_log, rec>>
    /\ last_validation' = NoValidation
    /\ UNCHANGED daemonVars

\* A checkpoint file is damaged on disk: json.load raises on it from now on.
CorruptFile(i) ==
    /\ rec.pc = "idle"
    /\ i \in 1..Len(checkpoints_dir)
    /\ checkpoints_dir[i].parses
    /\ checkpoints_dir' = [checkpoints_dir EXCEPT ![i].parses = FALSE]
    /\ UNCHANGED <<state_file, fs_time, created, last_cleanup, createVars, now,
                   max_checkpoints, project_files, snapshots, backups, recovery_log,
                   rec>>
    /\ last_validation' = NoValidation
    /\ UNCHANGED daemonVars

NextEmergency ==
    \/ EmergencyRecovery
    \/ RecoverBackup
    \/ RecoverRestoreState
    \/ RecoverFiles
    \/ RecoverLog
    \/ RecoverReturn
    \/ EmergencyCheckpoint
    \/ \E p \in Paths : ChangeFile(p)
    \/ \E i \in 1..MaxStored : CorruptFile(i)

SpecEmergency == InitRecover /\ [][NextEmergency]_vars

\* Creations with their retention prunings, and recoveries.
NextRollback ==
    \/ \E id \in KnownIds : RecoverCall(id)
    \/ RecoverBackup
    \/ RecoverRestoreState
    \/ RecoverFiles
    \/ RecoverLog
    \/ RecoverReturn
    \/ EmergencyCheckpoint

SpecRollback == InitRecover /\ [][NextRollback]_vars

\* validate_checkpoint called by an operator while the store and the
\* project files change around it.
\* A checkpoint file is edited on disk: one required field of its
\* 'checkpoint' object is removed; the file still parses.
StripField(i, field) ==
    /\ rec.pc = "idle"
    /\ i \in 1..Len(checkpoints_dir)
    /\ checkpoints_dir[i].parses
    /\ checkpoints_dir[i].missing = {}
    /\ checkpoints_dir' = [checkpoints_dir EXCEPT ![i].missing = @ \cup {field}]
    /\ UNCHANGED <<state_file, fs_time, created, last_cleanup, createVars, now,
                   max_checkpoints, project_files, snapshots, backups, recovery_log,
                   rec>>
    /\ last_validation' = NoValidation
    /\ UNCHANGED daemonVars

NextValidate ==
    \/ \E id \in KnownIds : Validate(id)
    \/ RecoveryCheckpoint
    \/ EditState
    \/ DeleteState
    \/ \E p \in Paths : ChangeFile(p)

SpecValidate == InitRecover /\ [][NextValidate]_vars

\* validate_checkpoint over checkpoint files that were damaged after they
\* were written.
NextVerdict ==
    \/ \E id \in KnownIds : Validate(id)
    \/ RecoveryCheckpoint
    \/ \E p \in Paths : ChangeFile(p)
    \/ \E i \in 1..MaxStored : CorruptFile(i)
    \/ \E i \in 1..MaxStored, field \in RequiredFields : StripField(i, field)

SpecVerdict == InitRecover /\ [][NextVerdict]_vars

\* The read permission of a project file is taken away.
ProtectFile(p) ==
    /\ rec.pc = "idle"
    /\ project_files[p] = "live"
    /\ project_files' = [project_files EXCEPT ![p] = "unreadable"]
    /\ UNCHANGED <<storeVars, createVars, now, max_checkpoints,
                   snapshots, backups, recovery_log, rec>>
    /\ last_validation' = NoValidation
    /\ UNCHANGED daemonVars

\* validate_checkpoint over project files that may be unreadable.
NextAccess ==
    \/ \E id \in KnownIds : Validate(id)
    \/ RecoveryCheckpoint
    \/ \E p \in Paths : ChangeFile(p)
    \/ \E p \in Paths : ProtectFile(p)

SpecAccess == InitRecover /\ [][NextAccess]_vars

----------------------------------------------------------------------------
(* The trigger daemon: _checkpoint_loop and _monitor_loop (SpecDaemon) *)

\* self.activity_threshold
activity_threshold == 3

\* The ProgressRecord file as a path of the project tree: a .json file in a
\* directory _is_excluded_path does not exclude.
StatePath == "progress-state/PROGRESS_STATE.json"

\* hashlib.md5(current_state.encode()).hexdigest()
Md5(content) == <<"md5", content>>

\* A write to monitored file p: its st_mtime is above every time read so far.
Touch(marks, p) ==
    [last_check |-> marks.last_check \cup {p},
     current_time |-> marks.current_time \cup {p}]

\* Mutant of StateChanged: a change is reported without being remembered.
StateChanged_NotSticky(file, last_hash) ==
    IF file = NoFile THEN [changed |-> FALSE, hash |-> last_hash]
    ELSE LET current_hash == Md5(file[1])
         IN IF last_hash = NoHash THEN [changed |-> FALSE, hash |-> current_hash]
            ELSE IF current_hash # last_hash
                 THEN [changed |-> TRUE, hash |-> last_hash]
                 ELSE [changed |-> FALSE, hash |-> last_hash]

\* _state_changed(), lines 191-214: the answer, and last_state_hash after it.
StateChanged(file, last_hash) ==
    IF file = NoFile THEN [changed |-> FALSE, hash |-> last_hash]
    ELSE LET current_hash == Md5(file[1])
         IN IF last_hash = NoHash THEN [changed |-> FALSE, hash |-> current_hash]
            ELSE IF current_hash # last_hash
                 THEN [changed |-> TRUE, hash |-> current_hash]
                 ELSE [changed |-> FALSE, hash |-> last_hash]

\* Mutant of Start: the test of self.running at line 75 is left out.
Start_NoGuard ==
    /\ cp.thread < MaxStarts
    /\ running' = TRUE
    /\ cp' = [NoCp EXCEPT !.pc = "test", !.thread = cp.thread + 1]
    /\ mon' = [NoMon EXCEPT !.pc = "init", !.thread = mon.thread + 1]
    /\ UNCHANGED <<storeVars, createVars, recoverVars, now, max_checkpoints,
                   shutdown_event, checkpoint_interval, last_checkpoint_time,
                   last_state_hash, file_change_count, newer>>

\* start(), lines 73-90.  cp.thread and mon.thread number the Thread objects
\* held by self.checkpoint_thread and self.monitor_thread.  A start after a
\* stop is taken once the loops of the previous run have returned.
Start ==
    IF running
    THEN UNCHANGED vars
    ELSE /\ cp.thread < MaxStarts
         /\ cp.pc \in {"none", "exited"}
         /\ mon.pc \in {"none", "exited"}
         /\ running' = TRUE
         /\ cp' = [NoCp EXCEPT !.pc = "test", !.thread = cp.thread + 1]
         /\ mon' = [NoMon EXCEPT !.pc = "init", !.thread = mon.thread + 1]
         /\ UNCHANGED <<storeVars, createVars, recoverVars, now, max_checkpoints,
                        shutdown_event, checkpoint_interval, last_checkpoint_time,
                        last_state_hash, file_change_count, newer>>

\* stop(), lines 92-107.  The joins (timeout 5) wait and change nothing.
Stop ==
    IF ~running
    THEN UNCHANGED vars
    ELSE /\ running' = FALSE
         /\ shutdown_event' = TRUE
         /\ UNCHANGED <<storeVars, createVars, recoverVars, now, max_checkpoints,
                        checkpoint_interval, last_checkpoint_time,
                        last_state_hash, file_change_count, cp, mon, newer>>

\* _signal_handler(), lines 68-71: SIGINT or SIGTERM calls stop().
SignalHandler == Stop

\* Mutant of CpDecide: the activity test comes before the time test.
CpDecide_ActivityFirst ==
    /\ cp.pc = "test"
    /\ now >= cp.wake \/ shutdown_event
    /\ IF ~(running /\ ~shutdown_event)
       THEN /\ cp' = [cp EXCEPT !.pc = "exited"]
            /\ UNCHANGED last_state_hash
       ELSE LET current_time == now
                time_since_last == current_time - last_checkpoint_time
                time_based == time_since_last >= checkpoint_interval
                activity_based == file_change_count >= activity_threshold
                state_changed == StateChanged(state_file, last_state_hash)
                checkpoint_reason ==
                    IF activity_based THEN "ACTIVITY_BASED"
                    ELSE IF time_based THEN "TIME_BASED"
                    ELSE IF state_changed.changed THEN "STATE_CHANGE"
                    ELSE "none"
            IN /\ cp' = [pc |-> IF checkpoint_reason = "none" THEN "test" ELSE "create",
                         thread |-> cp.thread,
                         failed |-> FALSE,
                         current_time |-> current_time,
                         reason |-> checkpoint_reason,
                         wake |-> now + 60,
                         count |-> IF checkpoint_reason = "none" THEN 0
                                   ELSE file_change_count,
                         dropped |-> 0]
               /\ last_state_hash' = IF time_based \/ activity_based
                                     THEN last_state_hash
                                     ELSE state_changed.hash
    /\ UNCHANGED <<storeVars, createVars, recoverVars, now, max_checkpoints,
                   running, shutdown_event, checkpoint_interval,
                   last_checkpoint_time, file_change_count, mon, newer>>

\* Lines 111-129: the loop test and the decision of one cycle.  A cycle that
\* does not fire goes to shutdown_event.wait(60).
CpDecide ==
    /\ cp.pc = "test"
    /\ now >= cp.wake \/ shutdown_event
    /\ IF ~(running /\ ~shutdown_event)
       THEN /\ cp' = [cp EXCEPT !.pc = "exited"]
            /\ UNCHANGED last_state_hash
       ELSE LET current_time == now
                time_since_last == current_time - last_checkpoint_time
                time_based == time_since_last >= checkpoint_interval
                activity_based == file_change_count >= activity_threshold
                state_changed == StateChanged(state_file, last_state_hash)
                checkpoint_reason ==
                    IF time_based THEN "TIME_BASED"
                    ELSE IF activity_based THEN "ACTIVITY_BASED"
                    ELSE IF state_changed.changed THEN "STATE_CHANGE"
                    ELSE "none"
            IN /\ cp' = [pc |-> IF checkpoint_reason = "none" THEN "test" ELSE "create",
                         thread |-> cp.thread,
                         failed |-> FALSE,
                         current_time |-> current_time,
                         reason |-> checkpoint_reason,
                         wake |-> now + 60,
                         count |-> IF checkpoint_reason = "none" THEN 0
                                   ELSE file_change_count,
                         dropped |-> 0]
               /\ last_state_hash' = IF time_based \/ activity_based
                                     THEN last_state_hash
                                     ELSE state_changed.hash
    /\ UNCHANGED <<storeVars, createVars, recoverVars, now, max_checkpoints,
                   running, shutdown_event, checkpoint_interval,
                   last_checkpoint_time, file_change_count, mon, newer>>

\* Mutant of CpCreate: with no ProgressRecord file the creation raises and
\* the exception ends the loop.
CpCreate_RaisesWhenAbsent ==
    /\ cp.pc = "create"
    /\ IF state_file = NoFile
       THEN /\ cp' = [cp EXCEPT !.pc = "exited"]
            /\ UNCHANGED <<storeVars, newer>>
       ELSE /\ CreateAutoCheckpoint(cp.reason)
            /\ newer' = IF state_file = <<Truncated>>
                         THEN newer ELSE Touch(newer, StatePath)
            /\ cp' = [cp EXCEPT !.pc = "reset"]
    /\ UNCHANGED <<createVars, recoverVars, now, max_checkpoints,
                   running, shutdown_event, checkpoint_interval,
                   last_checkpoint_time, last_state_hash, file_change_count, mon>>

\* Line 131: self._create_auto_checkpoint(checkpoint_reason)
CpCreate ==
    /\ cp.pc = "create"
    /\ CreateAutoCheckpoint(cp.reason)
    /\ newer' = IF state_file = NoFile \/ state_file = <<Truncated>>
                 THEN newer ELSE Touch(newer, StatePath)
    /\ cp' = [cp EXCEPT !.pc = "reset"]
    /\ UNCHANGED <<createVars, recoverVars, now, max_checkpoints,
                   running, shutdown_event, checkpoint_interval,
                   last_checkpoint_time, last_state_hash, file_change_count, mon>>

\* Mutant of CpReset: last_checkpoint_time is left as it was.
CpReset_KeepsTime ==
    /\ cp.pc = "reset"
    /\ file_change_count' = 0
    /\ cp' = [cp EXCEPT !.pc = "test", !.wake = now + 60, !.count = 0,
                        !.dropped = file_change_count - cp.count]
    /\ UNCHANGED <<storeVars, createVars, recoverVars, now, max_checkpoints,
                   running, shutdown_event, checkpoint_interval,
                   last_checkpoint_time, last_state_hash, mon, newer>>

\* Lines 132-136: the resets after a firing, then shutdown_event.wait(60).
CpReset ==
    /\ cp.pc = "reset"
    /\ last_checkpoint_time' = cp.current_time
    /\ file_change_count' = 0
    /\ cp' = [cp EXCEPT !.pc = "test", !.wake = now + 60, !.count = 0,
                        !.dropped = file_change_count - cp.count]
    /\ UNCHANGED <<storeVars, createVars, recoverVars, now, max_checkpoints,
                   running, shutdown_event, checkpoint_interval,
                   last_state_hash, mon, newer>>

\* Line 144: last_check = time.time()
MonInit ==
    /\ mon.pc = "init"
    /\ newer' = [newer EXCEPT !.last_check = {}]
    /\ mon' = [mon EXCEPT !.pc = "test", !.wake = now]
    /\ UNCHANGED <<storeVars, createVars, recoverVars, now, max_checkpoints,
                   running, shutdown_event, checkpoint_interval,
                   last_checkpoint_time, last_state_hash, file_change_count, cp>>

\* Lines 146-148: the loop test, and current_time = time.time()
MonRead ==
    /\ mon.pc = "test"
    /\ now >= mon.wake \/ shutdown_event
    /\ IF ~(running /\ ~shutdown_event)
       THEN /\ mon' = [mon EXCEPT !.pc = "exited"]
            /\ UNCHANGED newer
       ELSE /\ mon' = [mon EXCEPT !.pc = "scan"]
            /\ newer' = [newer EXCEPT !.current_time = {}]
    /\ UNCHANGED <<storeVars, createVars, recoverVars, now, max_checkpoints,
                   running, shutdown_event, checkpoint_interval,
                   last_checkpoint_time, last_state_hash, file_change_count, cp>>

\* Lines 151-153 and 156-157: the scan; with changes, the load of
\* self.file_change_count for +=; with none, last_check = current_time and
\* shutdown_event.wait(60).
MonScan ==
    /\ mon.pc = "scan"
    /\ LET changes == newer.last_check
       IN IF changes # {}
          THEN /\ mon' = [mon EXCEPT !.pc = "add", !.read = file_change_count,
                                     !.k = Cardinality(changes)]
               /\ UNCHANGED newer
          ELSE /\ mon' = [mon EXCEPT !.pc = "test", !.k = 0, !.wake = now + 60]
               /\ newer' = [newer EXCEPT !.last_check = newer.current_time]
    /\ UNCHANGED <<storeVars, createVars, recoverVars, now, max_checkpoints,
                   running, shutdown_event, checkpoint_interval,
                   last_checkpoint_time, last_state_hash, file_change_count, cp>>

\* Mutant of MonAdd: the counter is assigned len(changes) instead of being
\* increased by it.
MonAdd_Overwrites ==
    /\ mon.pc = "add"
    /\ file_change_count' = mon.k
    /\ newer' = [newer EXCEPT !.last_check = newer.current_time]
    /\ mon' = [mon EXCEPT !.pc = "test", !.wake = now + 60]
    /\ UNCHANGED <<storeVars, createVars, recoverVars, now, max_checkpoints,
                   running, shutdown_event, checkpoint_interval,
                   last_checkpoint_time, last_state_hash, cp>>

\* Lines 153 and 156-157: the store of self.file_change_count += len(changes),
\* then last_check = current_time and shutdown_event.wait(60).
MonAdd ==
    /\ mon.pc = "add"
    /\ file_change_count' = mon.read + mon.k
    /\ newer' = [newer EXCEPT !.last_check = newer.current_time]
    /\ mon' = [mon EXCEPT !.pc = "test", !.wake = now + 60]
    /\ UNCHANGED <<storeVars, createVars, recoverVars, now, max_checkpoints,
                   running, shutdown_event, checkpoint_interval,
                   last_checkpoint_time, last_state_hash, cp>>

\* The project files written while the daemon runs.
WrittenPaths == {"src/app.py"}

\* A monitored project file is written.
ModifyFile(p) ==
    /\ project_files' = [project_files EXCEPT ![p] = "live"]
    /\ newer' = Touch(newer, p)
    /\ UNCHANGED <<storeVars, createVars, now, max_checkpoints,
                   snapshots, backups, recovery_log, rec, last_validation,
                   running, shutdown_event, checkpoint_interval,
                   last_checkpoint_time, last_state_hash, file_change_count, cp, mon>>

\* save_progress_state of a front end: the work moves on to the next task.
FrontEndSave ==
    /\ state_file # NoFile
    /\ \E profile \in Profiles :
          /\ profile.phase > state_file[1].phase
          /\ state_file' = <<[state_file[1] EXCEPT !.phase = profile.phase,
                                                   !.task = profile.task,
                                                   !.progress = profile.progress]>>
    /\ newer' = Touch(newer, StatePath)
    /\ UNCHANGED <<checkpoints_dir, fs_time, created, last_cleanup, createVars,
                   recoverVars, now, max_checkpoints,
                   running, shutdown_event, checkpoint_interval,
                   last_checkpoint_time, last_state_hash, file_change_count, cp, mon>>

\* save_progress_state of a front end, lines 53-54, first half:
\* open(self.state_file, 'w') empties the file.  local["force"].state holds
\* the document the caller is about to dump.
SaveOpen ==
    /\ pc["force"] = "idle"
    /\ state_file # NoFile
    /\ \E profile \in Profiles :
          /\ profile.phase > state_file[1].phase
          /\ local' = [local EXCEPT !["force"].state =
                          <<[state_file[1] EXCEPT !.phase = profile.phase,
                                                  !.task = profile.task,
                                                  !.progress = profile.progress]>>]
    /\ pc' = [pc EXCEPT !["force"] = "dump"]
    /\ state_file' = <<Truncated>>
    /\ newer' = Touch(newer, StatePath)
    /\ UNCHANGED <<checkpoints_dir, fs_time, created, last_cleanup, calls,
                   recoverVars, now, max_checkpoints,
                   running, shutdown_event, checkpoint_interval,
                   last_checkpoint_time, last_state_hash, file_change_count, cp, mon>>

\* save_progress_state, lines 53-54, second half: json.dump and the close
\* of the file put the whole document in place.
SaveDump ==
    /\ pc["force"] = "dump"
    /\ state_file' = local["force"].state
    /\ pc' = [pc EXCEPT !["force"] = "idle"]
    /\ local' = [local EXCEPT !["force"] = NoLocal]
    /\ newer' = Touch(newer, StatePath)
    /\ UNCHANGED <<checkpoints_dir, fs_time, created, last_cleanup, calls,
                   recoverVars, now, max_checkpoints,
                   running, shutdown_event, checkpoint_interval,
                   last_checkpoint_time, last_state_hash, file_change_count, cp, mon>>

\* A minute passes while both loops are in shutdown_event.wait(60).
Elapse ==
    /\ MinuteStamp(now) < MaxDaemonMinutes
    /\ cp.pc = "test" /\ cp.wake > now
    /\ mon.pc = "test" /\ mon.wake > now
    /\ now' = now + 60
    /\ UNCHANGED <<storeVars, createVars, recoverVars, max_checkpoints, daemonVars>>

InitDaemon ==
    /\ InitStore
    /\ InitNoRecovery
    /\ max_checkpoints = MaxRetention
    /\ pc = [t \in Threads |-> "idle"]
    /\ local = [t \in Threads |-> NoLocal]
    /\ calls = 0
    /\ running = FALSE
    /\ shutdown_event = FALSE
    /\ checkpoint_interval \in {60 * m : m \in 2..MaxIntervalMinutes}
    /\ last_checkpoint_time = 0
    /\ last_state_hash = NoHash
    /\ file_change_count = 0
    /\ cp = NoCp
    /\ mon = NoMon
    /\ newer = NoMarks

NextDaemon ==
    \/ Start
    \/ CpDecide
    \/ CpCreate
    \/ CpReset
    \/ MonInit
    \/ MonRead
    \/ MonScan
    \/ MonAdd
    \/ \E p \in WrittenPaths : ModifyFile(p)
    \/ FrontEndSave
    \/ Elapse

SpecDaemon == InitDaemon /\ [][NextDaemon]_vars

\* force_checkpoint() called on the daemon object while no other creation
\* is in progress.
DaemonForceCheckpoint ==
    /\ Len(created) < MaxForced
    /\ ForceCheckpoint

\* The daemon with its callers: start, stop, signals and force_checkpoint.
NextLifecycle ==
    \/ Start
    \/ Stop
    \/ SignalHandler
    \/ DaemonForceCheckpoint
    \/ CpDecide
    \/ CpCreate
    \/ CpReset
    \/ MonInit
    \/ MonRead
    \/ MonScan
    \/ MonAdd
    \/ Elapse

SpecLifecycle == InitDaemon /\ [][NextLifecycle]_vars

\* The ProgressRecord file is removed while the daemon runs.
RemoveState ==
    /\ state_file # NoFile
    /\ pc["force"] = "idle"
    /\ state_file' = NoFile
    /\ UNCHANGED <<checkpoints_dir, fs_time, created, last_cleanup, createVars,
                   recoverVars, now, max_checkpoints, daemonVars>>

\* The daemon and force_checkpoint while the ProgressRecord file may be
\* missing.
NextAbsent ==
    \/ Start
    \/ DaemonForceCheckpoint
    \/ CpDecide
    \/ CpCreate
    \/ CpReset
    \/ MonInit
    \/ MonRead
    \/ MonScan
    \/ MonAdd
    \/ RemoveState
    \/ Elapse

SpecAbsent == InitDaemon /\ [][NextAbsent]_vars

\* The daemon left to itself: nobody else writes the ProgressRecord or a
\* project file.
NextQuiet ==
    \/ Start
    \/ CpDecide
    \/ CpCreate
    \/ CpReset
    \/ MonInit
    \/ MonRead
    \/ MonScan
    \/ MonAdd
    \/ Elapse

SpecQuiet == InitDaemon /\ [][NextQuiet]_vars

\* Mutant of CpRaise: the exception leaves the loop.
CpRaise_Terminates ==
    /\ cp.pc \in {"create", "reset"}
    /\ cp' = [cp EXCEPT !.pc = "exited"]
    /\ UNCHANGED <<storeVars, createVars, recoverVars, now, max_checkpoints,
                   running, shutdown_event, checkpoint_interval,
                   last_checkpoint_time, last_state_hash, file_change_count,
                   mon, newer>>

\* Lines 138-140: a statement of the cycle raises; the handler logs and
\* goes to shutdown_event.wait(60).
CpRaise ==
    /\ cp.pc \in {"create", "reset"}
    /\ cp' = [cp EXCEPT !.pc = "test", !.wake = now + 60]
    /\ UNCHANGED <<storeVars, createVars, recoverVars, now, max_checkpoints,
                   running, shutdown_event, checkpoint_interval,
                   last_checkpoint_time, last_state_hash, file_change_count,
                   mon, newer>>

\* Lines 159-161: a statement of the scan cycle raises; last_check keeps
\* its value.
MonRaise ==
    /\ mon.pc \in {"scan", "add"}
    /\ mon' = [mon EXCEPT !.pc = "test", !.wake = now + 60]
    /\ UNCHANGED <<storeVars, createVars, recoverVars, now, max_checkpoints,
                   running, shutdown_event, checkpoint_interval,
                   last_checkpoint_time, last_state_hash, file_change_count,
                   cp, newer>>

\* The two loops with cycles that may raise.
NextLive ==
    \/ Start
    \/ CpDecide
    \/ CpCreate
    \/ CpReset
    \/ CpRaise
    \/ MonInit
    \/ MonRead
    \/ MonScan
    \/ MonAdd
    \/ MonRaise
    \/ Elapse

\* Both threads are scheduled again and again.
SpecLive ==
    /\ InitDaemon
    /\ [][NextLive]_vars
    /\ WF_vars(CpDecide) /\ WF_vars(CpCreate) /\ WF_vars(CpReset)
    /\ WF_vars(MonInit) /\ WF_vars(MonRead) /\ WF_vars(MonScan) /\ WF_vars(MonAdd)

\* Line 131 when the write of the checkpoint file raises (line 263):
\* _create_auto_checkpoint logs the error at lines 295-296 and returns with
\* nothing written.  cp.failed remembers it until the next decision.
CpCreateFails ==
    /\ cp.pc = "create"
    /\ state_file # NoFile
    /\ cp' = [cp EXCEPT !.pc = "reset", !.failed = TRUE]
    /\ UNCHANGED <<storeVars, createVars, recoverVars, now, max_checkpoints,
                   running, shutdown_event, checkpoint_interval,
                   last_checkpoint_time, last_state_hash, file_change_count,
                   mon, newer>>

\* The daemon on a disk whose writes may fail.
NextFail ==
    \/ Start
    \/ CpDecide
    \/ CpCreate
    \/ CpCreateFails
    \/ CpReset
    \/ MonInit
    \/ MonRead
    \/ MonScan
    \/ MonAdd
    \/ Elapse

SpecFail == InitDaemon /\ [][NextFail]_vars

\* stop(), lines 92-99, called by the thread that also calls
\* force_checkpoint: the flags are set, the joins are next.
StopRequest ==
    /\ pc["force"] = "idle"
    /\ running
    /\ running' = FALSE
    /\ shutdown_event' = TRUE
    /\ pc' = [pc EXCEPT !["force"] = "join"]
    /\ UNCHANGED <<storeVars, local, calls, recoverVars, now, max_checkpoints,
                   checkpoint_interval, last_checkpoint_time,
                   last_state_hash, file_change_count, cp, mon, newer>>

\* stop(), lines 101-107: each join(timeout=5) ends when its thread has
\* returned or when the five seconds are over, whichever comes first; then
\* stop() returns.
StopJoined ==
    /\ pc["force"] = "join"
    /\ pc' = [pc EXCEPT !["force"] = "idle"]
    /\ UNCHANGED <<storeVars, local, calls, recoverVars, now, max_checkpoints,
                   daemonVars>>

\* Line 131, lines 218-264 of _create_auto_checkpoint: load the state and
\* write the checkpoint file.  The loop thread's locals are in local.
CpCreateWrite ==
    /\ cp.pc = "create"
    /\ IF state_file = NoFile \/ state_file = <<Truncated>>
       THEN /\ cp' = [cp EXCEPT !.pc = "reset"]
            /\ UNCHANGED <<storeVars, local>>
       ELSE LET checkpoint_count == Len(GlobAuto(checkpoints_dir)) + 1
                file == CheckpointData(AutoCheckpointId(checkpoint_count), cp.reason,
                                       state_file[1], now, fs_time + 1,
                                       RecentlyModifiedFiles(project_files))
            IN /\ checkpoints_dir' = WriteFile(checkpoints_dir, file)
               /\ created' = Append(created, Creation(file, state_file))
               /\ fs_time' = fs_time + 1
               /\ local' = [local EXCEPT !["loop"] =
                                [reason |-> cp.reason, state |-> state_file,
                                 checkpoint_count |-> checkpoint_count]]
               /\ cp' = [cp EXCEPT !.pc = "save"]
               /\ UNCHANGED <<state_file, last_cleanup>>
    /\ UNCHANGED <<pc, calls, recoverVars, now, max_checkpoints,
                   running, shutdown_event, checkpoint_interval,
                   last_checkpoint_time, last_state_hash, file_change_count, mon,
                   newer>>

\* Line 131, lines 266-293 of _create_auto_checkpoint: update the loaded
\* state, write it over the state file, and prune.
CpCreateSave ==
    /\ cp.pc = "save"
    /\ state_file' = <<UpdatedState(local["loop"].state[1],
                                    AutoCheckpointId(local["loop"].checkpoint_count),
                                    local["loop"].reason,
                                    local["loop"].checkpoint_count)>>
    /\ \E failAt \in 0..Len(OldCheckpoints(checkpoints_dir, max_checkpoints)) :
          /\ checkpoints_dir' = CleanupOldCheckpoints(checkpoints_dir, max_checkpoints,
                                                      failAt)
          /\ last_cleanup' = CleanupRecord(checkpoints_dir, checkpoints_dir',
                                           max_checkpoints, failAt, last_cleanup,
                                           Len(created))
    /\ newer' = Touch(newer, StatePath)
    /\ local' = [local EXCEPT !["loop"] = NoLocal]
    /\ cp' = [cp EXCEPT !.pc = "reset"]
    /\ UNCHANGED <<fs_time, created, pc, calls, recoverVars, now, max_checkpoints,
                   running, shutdown_event, checkpoint_interval,
                   last_checkpoint_time, last_state_hash, file_change_count, mon>>

\* The daemon started, stopped and started again, with the creation of the
\* decision loop in two steps.
NextStop ==
    \/ pc["force"] = "idle" /\ Start
    \/ StopRequest
    \/ StopJoined
    \/ CpDecide
    \/ CpCreateWrite
    \/ CpCreateSave
    \/ CpReset
    \/ MonInit
    \/ MonRead
    \/ MonScan
    \/ MonAdd
    \/ Elapse

\* Both threads are scheduled again and again, and the joins of stop() are
\* bounded by their timeout.
SpecStop ==
    /\ InitDaemon
    /\ [][NextStop]_vars
    /\ WF_vars(CpDecide) /\ WF_vars(CpCreateWrite) /\ WF_vars(CpCreateSave)
    /\ WF_vars(CpReset)
    /\ WF_vars(MonInit) /\ WF_vars(MonRead) /\ WF_vars(MonScan) /\ WF_vars(MonAdd)
    /\ WF_vars(StopJoined)

\* The daemon while a front end saves the ProgressRecord.
NextWrite ==
    \/ Start
    \/ CpDecide
    \/ CpCreate
    \/ CpReset
    \/ MonInit
    \/ MonRead
    \/ MonScan
    \/ MonAdd
    \/ SaveOpen
    \/ SaveDump
    \/ Elapse

SpecWrite == InitDaemon /\ [][NextWrite]_vars

----------------------------------------------------------------------------
(* Claims about the checkpoint store *)

IdNumber(checkpoint_id) == checkpoint_id[2]

\* C1: no two written checkpoints receive the same checkpoint id, and no
\* two creations write the same checkpoint file name, also when the decision
\* loop's creation runs concurrently with force_checkpoint.
C1_UniqueIdsAndFileNames ==
    \A i, j \in 1..Len(created) :
        i < j => /\ created[i].checkpoint_id # created[j].checkpoint_id
                 /\ created[i].name # created[j].name

\* C4: the checkpoint ids a daemon instance allocates are strictly
\* increasing in creation order, also across retention pruning.
C4_IdsStrictlyIncreasing ==
    \A i, j \in 1..Len(created) :
        i < j => IdNumber(created[i].checkpoint_id) < IdNumber(created[j].checkpoint_id)

\* Position of the latest creation of file `name` among the first n creations.
CreationIndex(name, n) ==
    LET hits == {i \in 1..n : created[i].name = name}
    IN IF hits = {} THEN 0 ELSE CHOOSE i \in hits : \A k \in hits : k <= i

\* C5: a pruning run in which every delete succeeds, applied to N automatic
\* checkpoints with maximum max, deletes exactly the N - max oldest by
\* creation order and leaves exactly max, each newer than every deleted one,
\* when N > max; it deletes nothing when N <= max.  Files it keeps are
\* untouched.
C5_RetentionPrunesOldest ==
    (last_cleanup.max # 0 /\ last_cleanup.failAt = 0) =>
        LET before == last_cleanup.before
            after == last_cleanup.after
            max == last_cleanup.max
            N == Len(GlobAuto(before))
            deleted == Names(before) \ Names(after)
            kept == Names(GlobAuto(after))
        IN /\ after = SelectSeq(before, LAMBDA f : f.name \in Names(after))
           /\ N > max =>
                 /\ Cardinality(deleted) = N - max
                 /\ Cardinality(kept) = max
                 /\ deleted \subseteq Names(GlobAuto(before))
                 /\ \A d \in deleted, k \in kept :
                       CreationIndex(d, last_cleanup.n_created)
                           < CreationIndex(k, last_cleanup.n_created)
           /\ N <= max => after = before

\* C5 witness: a pruning run with no failed delete removed two or more
\* checkpoints.
C5_Witness ==
    /\ last_cleanup.max # 0
    /\ last_cleanup.failAt = 0
    /\ Len(GlobAuto(last_cleanup.before)) >= last_cleanup.max + 2
    /\ Len(last_cleanup.after) = last_cleanup.max

\* C6: a second pruning run with no checkpoint created since the first
\* (both without a failed delete) leaves the stored checkpoints as the
\* first run left them.
C6_PruneIdempotent ==
    (last_cleanup.second /\ last_cleanup.failAt = 0) =>
        last_cleanup.after = last_cleanup.before

\* C6 witness: the second run followed a first run that had deleted files.
C6_Witness ==
    /\ last_cleanup.second
    /\ last_cleanup.failAt = 0
    /\ last_cleanup.first_deleted > 0

----------------------------------------------------------------------------
(* Claims about the recovery manager *)

\* C2: when validation of the requested checkpoint reports
\* recovery_feasible = false, recover_from_checkpoint returns success = false
\* and state_restored = false, and the live ProgressRecord, the project
\* files and the backups are what they were before the call.
C2_InfeasibleChangesNothing ==
    (rec.pc = "done" /\ ~rec.validation.recovery_feasible) =>
        /\ ~rec.result.success
        /\ ~rec.result.state_restored
        /\ state_file = rec.pre[1]
        /\ project_files = rec.pre[2]
        /\ backups = rec.pre[3]

\* C2 witness: a recovery returned for a checkpoint that exists and is
\* structurally valid but references a file that is not on disk.
C2_Witness ==
    /\ rec.pc = "done"
    /\ rec.validation.found
    /\ rec.validation.valid
    /\ ~rec.validation.recovery_feasible

\* C3: every step of a recovery that overwrites the live ProgressRecord is
\* taken after the backup step has run; when a live ProgressRecord existed
\* before the call and backup_created is true, a backup whose content is that
\* pre-call ProgressRecord exists at the moment of the overwrite.
C3_BackupBeforeOverwrite ==
    [][(rec.pc # "idle" /\ state_file' # state_file) =>
          /\ rec.backup_done
          /\ (rec.pre[1] # NoFile /\ rec.result.backup_created) =>
                 \E b \in backups : b.content = rec.pre[1][1]]_vars

\* C3 witness: a recovery has overwritten a live ProgressRecord that existed
\* before the call, and reports backup_created.
C3_Witness ==
    /\ rec.pc = "files"
    /\ rec.result.state_restored
    /\ rec.result.backup_created
    /\ rec.pre[1] # NoFile
    /\ state_file # rec.pre[1]

Unstamped(state) ==
    [state EXCEPT !.last_updated = 0, !.session_id = <<>>, !.recovery_history = <<>>]

\* C8: when a recovery has restored the state, the live ProgressRecord
\* has the phase, task and progress the ProgressRecord had when the
\* checkpoint file was written, and differs from that record only in
\* last_updated, session_id and recovery_history.
C8_RoundTrip ==
    (rec.pc \in {"files", "log", "done"} /\ rec.result.state_restored) =>
        LET i == CreationIndex(rec.file[1].name, Len(created))
            captured == created[i].live[1]
        IN /\ i # 0
           /\ state_file # NoFile
           /\ state_file[1].phase = captured.phase
           /\ state_file[1].task = captured.task
           /\ state_file[1].progress = captured.progress
           /\ Unstamped(state_file[1]) = Unstamped(captured)
           /\ state_file[1].recovery_history # captured.recovery_history

\* C8 witness: a recovery restored a checkpoint taken under other business
\* fields than the live ProgressRecord had when the recovery was called.
C8_Witness ==
    /\ rec.pc = "done"
    /\ rec.result.state_restored
    /\ rec.pre[1] # NoFile
    /\ rec.pre[1][1].task # state_file[1].task

----------------------------------------------------------------------------
(* Claims about the trigger daemon *)

\* A step of the decision loop that takes the decision of a cycle.
DecisionStep == cp.pc = "test" /\ cp' # cp /\ cp'.pc # "exited"

\* C9: a decision cycle that finds the time since last_checkpoint_time at or
\* above checkpoint_interval fires TIME_BASED; the resets after a firing set
\* last_checkpoint_time to the time the cycle read; and a cycle that follows
\* a TIME_BASED cycle fires TIME_BASED only when a whole interval has passed
\* since that cycle.
C9_TimeBasedOncePerInterval ==
    [][/\ DecisionStep =>
            /\ (now - last_checkpoint_time >= checkpoint_interval)
                  => (cp'.reason = "TIME_BASED" /\ cp'.pc = "create")
            /\ (cp.reason = "TIME_BASED" /\ cp'.reason = "TIME_BASED")
                  => cp'.current_time - cp.current_time >= checkpoint_interval
       /\ (cp.pc = "reset" /\ cp'.pc = "test") =>
            last_checkpoint_time' = cp.current_time]_vars

\* C9 witness: with no project file written and no front-end save, the
\* daemon fired TIME_BASED once, and the following cycle, a minute later,
\* did not fire TIME_BASED.
C9_Witness ==
    /\ \A p \in Paths : project_files[p] = "absent"
    /\ state_file # NoFile
    /\ state_file[1].task = DefaultState.task
    /\ Len(state_file[1].checkpoints) = 1
    /\ state_file[1].checkpoints[1].trigger = "TIME_BASED"
    /\ cp.pc \in {"create", "test"}
    /\ cp.reason # "TIME_BASED"
    /\ last_checkpoint_time > 0
    /\ cp.current_time = last_checkpoint_time + 60

\* C10: the scan loop's update sets the change counter to the value it
\* loaded plus the number of changes it found; a decision cycle that finds
\* the counter at or above activity_threshold and the interval not elapsed
\* fires ACTIVITY_BASED; and the resets after that firing set the counter
\* to 0.
C10_ActivityAccumulatesAndFires ==
    [][/\ (mon.pc = "add" /\ mon'.pc # "add") =>
            file_change_count' = mon.read + mon.k
       /\ (/\ DecisionStep
           /\ file_change_count >= activity_threshold
           /\ now - last_checkpoint_time < checkpoint_interval) =>
            (cp'.reason = "ACTIVITY_BASED" /\ cp'.pc = "create")
       /\ (cp.pc = "reset" /\ cp'.pc = "test" /\ cp.reason = "ACTIVITY_BASED") =>
            file_change_count' = 0]_vars

\* C10 witness: a scan that found 1 change added it to the 2 counted before,
\* and the decision loop has fired ACTIVITY_BASED and reset the counter.
C10_Witness ==
    /\ mon.pc = "test"
    /\ mon.read = 2
    /\ mon.k = 1
    /\ cp.pc = "test"
    /\ cp.reason = "ACTIVITY_BASED"
    /\ file_change_count = 0

\* C11: no increment of the change counter is lost: what a reset of the
\* decision loop wipes is what the counter held when that cycle took its
\* decision, and nothing the scan loop added after it.
C11_NoIncrementLost == cp.dropped = 0

----------------------------------------------------------------------------
(* Claims about emergency_recovery *)

\* A stored checkpoint file that is recovery-feasible on its own account: it
\* parses, has the required fields, and every file it references exists.
FileFeasible(f, files) ==
    /\ f.parses
    /\ RequiredFields \cap f.missing = {}
    /\ \A p \in ReferencedFiles(f) : files[p] # "absent"

FeasibleFiles(dir, files) == {i \in 1..Len(dir) : FileFeasible(dir[i], files)}

\* C12: when no stored checkpoint is recovery-feasible, emergency_recovery
\* validates every stored checkpoint, calls recover_from_checkpoint for
\* none, returns success = false, and leaves the ProgressRecord, the project
\* files, the backups and the recovery log as they were.
C12_EmergencyNoFeasible ==
    (rec.emergency.called /\ FeasibleFiles(checkpoints_dir, rec.pre[2]) = {}) =>
        /\ \A i \in 1..Len(checkpoints_dir) :
              checkpoints_dir[i].parses =>
                  \E j \in 1..Len(rec.emergency.validated) :
                      rec.emergency.validated[j] = ListEntry(checkpoints_dir[i]).id
        /\ rec.emergency.recovered = <<>>
        /\ rec.pc = "done"
        /\ ~rec.result.success
        /\ state_file = rec.pre[1]
        /\ project_files = rec.pre[2]
        /\ backups = rec.pre[3]
        /\ recovery_log = rec.pre[4]

\* C13: when some stored checkpoint is recovery-feasible, emergency_recovery
\* calls recover_from_checkpoint once, with the id of the newest feasible
\* checkpoint, and that call recovers from that checkpoint's file.
C13_EmergencyNewestFeasible ==
    (rec.emergency.called /\ FeasibleFiles(checkpoints_dir, rec.pre[2]) # {}) =>
        LET feasible == FeasibleFiles(checkpoints_dir, rec.pre[2])
            newest == CHOOSE i \in feasible :
                         \A k \in feasible :
                             checkpoints_dir[k].timestamp <= checkpoints_dir[i].timestamp
        IN /\ rec.emergency.recovered = <<checkpoints_dir[newest].checkpoint_id>>
           /\ rec.file = <<checkpoints_dir[newest]>>

----------------------------------------------------------------------------
(* Claims about the result and the log of recover_from_checkpoint *)

\* C14: the success field of the result recover_from_checkpoint returns is
\* true exactly when state_restored is true and files_failed is empty.
C14_SuccessIffRestoredAndNoFailure ==
    rec.pc = "done" =>
        (rec.result.success <=>
            (rec.result.state_restored /\ rec.result.files_failed = {}))

\* C14 witness: a recovery returned with the state restored and a file that
\* failed to restore.
C14_Witness ==
    /\ rec.pc = "done"
    /\ rec.result.state_restored
    /\ rec.result.files_failed # {}
    /\ ~rec.result.success

\* C15: when a recover_from_checkpoint call returns, the recovery log holds
\* the entries it held at the call, unchanged, followed by exactly one new
\* entry.
C15_OneLogEntryPerCall ==
    (rec.pc = "done" /\ ~rec.emergency.called) =>
        /\ Len(recovery_log) = Len(rec.pre[4]) + 1
        /\ SubSeq(recovery_log, 1, Len(rec.pre[4])) = rec.pre[4]

\* C16: running is the state of a two-state machine.  A step from STOPPED to
\* RUNNING starts one new thread for each loop, at the head of its loop; a
\* step from RUNNING to STOPPED sets the shutdown event and starts no thread;
\* a step that leaves the state as it is starts no thread, and while STOPPED
\* it leaves the shutdown event as it is.
C16_TwoStateMachine ==
    [][/\ (~running /\ running') =>
            /\ cp'.thread = cp.thread + 1 /\ cp'.pc = "test"
            /\ mon'.thread = mon.thread + 1 /\ mon'.pc = "init"
       /\ (running /\ ~running') =>
            /\ shutdown_event'
            /\ cp' = cp /\ mon' = mon
       /\ (running <=> running') =>
            /\ cp'.thread = cp.thread /\ mon'.thread = mon.thread
            /\ ~running => shutdown_event' = shutdown_event]_vars

\* The daemon was started, stopped, started again and stopped again.
C16_Witness ==
    /\ ~running
    /\ shutdown_event
    /\ cp.thread = 2 /\ mon.thread = 2

\* C17: no creation that writes a checkpoint begins while a stop request is
\* in force (stop was called and start has not been called since).
C17_NoCreationAfterStop ==
    [][Len(created') > Len(created) => ~(shutdown_event /\ ~running)]_vars

\* C18: the daemon's state-hash check never reads a partially written
\* ProgressRecord: the hash it keeps is never the hash of an incomplete
\* document.
C18_NeverPartiallyWritten == last_state_hash # Md5(Truncated)

\* C19: a checkpoint file that exists before and after a step holds the same
\* checkpoint id and the same embedded full-state copy: no step rewrites a
\* written checkpoint file.
C19_WrittenCheckpointImmutable ==
    [][\A i \in 1..Len(checkpoints_dir) : \A j \in 1..Len(checkpoints_dir') :
          checkpoints_dir'[j].name = checkpoints_dir[i].name =>
              /\ checkpoints_dir'[j].checkpoint_id = checkpoints_dir[i].checkpoint_id
              /\ checkpoints_dir'[j].full_state = checkpoints_dir[i].full_state]_vars

\* The checkpoint files validate_checkpoint can find under an id: those that
\* parse and carry that id, by their place in the directory.
FilesWithId(checkpoint_id) ==
    {i \in 1..Len(checkpoints_dir) :
        /\ checkpoints_dir[i].parses
        /\ "checkpoint_id" \notin checkpoints_dir[i].missing
        /\ checkpoints_dir[i].checkpoint_id = checkpoint_id}

\* C20: the result of the last validate_checkpoint call, held against the
\* files as they are.  With a parsing file of that id: data_integrity says
\* that no required field is missing, valid is "no issue and data_integrity",
\* recovery_feasible is "valid and every referenced file exists".  With no
\* such file: not valid, not feasible, and an issue is recorded.
C20_ValidateVerdict ==
    LET r == last_validation.result
        F == FilesWithId(last_validation.checkpoint_id)
    IN last_validation.seq # 0 =>
          IF F = {}
          THEN ~r.valid /\ ~r.recovery_feasible /\ r.issues # {}
          ELSE LET f == checkpoints_dir[CHOOSE i \in F : \A j \in F : i <= j]
               IN /\ r.data_integrity <=> (\A x \in RequiredFields : x \notin f.missing)
                  /\ r.valid <=> (r.issues = {} /\ r.data_integrity)
                  /\ r.recovery_feasible <=>
                        (r.valid /\ \A p \in f.files_modified : project_files[p] # "absent")

\* validate_checkpoint was called for a stored checkpoint that has lost a
\* required field other than its id.
C20_Witness ==
    /\ last_validation.seq # 0
    /\ last_validation.result.found
    /\ ~last_validation.result.data_integrity
    /\ last_validation.result.issues = {"missing_fields"}

C22_NoSelfTrigger == cp.pc = "create" => cp.reason = "TIME_BASED"

\* C23: a decision cycle chooses TIME_BASED when the interval has elapsed,
\* otherwise ACTIVITY_BASED when the counter has reached the threshold,
\* otherwise STATE_CHANGE when the ProgressRecord differs from the one last
\* hashed, otherwise nothing; a cycle that does not fire leaves
\* last_checkpoint_time and the counter alone; a firing creates at most one
\* checkpoint and ends by setting last_checkpoint_time to the cycle's time
\* and the counter to 0.
C23_PriorityOrderAndResets ==
    [][/\ DecisionStep =>
            LET time_based == now - last_checkpoint_time >= checkpoint_interval
                activity_based == file_change_count >= activity_threshold
                state_changed == /\ state_file # NoFile
                                 /\ last_state_hash # NoHash
                                 /\ Md5(state_file[1]) # last_state_hash
                reason == IF time_based THEN "TIME_BASED"
                          ELSE IF activity_based THEN "ACTIVITY_BASED"
                          ELSE IF state_changed THEN "STATE_CHANGE"
                          ELSE "none"
            IN /\ cp'.reason = reason
               /\ cp'.pc = IF reason = "none" THEN "test" ELSE "create"
               /\ last_checkpoint_time' = last_checkpoint_time
               /\ file_change_count' = file_change_count
       /\ (cp.pc = "create" /\ cp'.pc # "create") =>
            /\ cp'.pc = "reset"
            /\ Len(created') <= Len(created) + 1
       /\ (cp.pc = "reset" /\ cp'.pc # "reset") =>
            /\ cp'.pc = "test"
            /\ last_checkpoint_time' = cp.current_time
            /\ file_change_count' = 0]_vars

\* A cycle chose TIME_BASED although the counter had reached the threshold
\* as well.
C23_Witness ==
    /\ cp.pc = "create"
    /\ cp.reason = "TIME_BASED"
    /\ file_change_count >= activity_threshold

\* A decision cycle that reaches the call of _state_changed(): neither the
\* time test nor the activity test held.
StateChangedCalled ==
    /\ DecisionStep
    /\ now - last_checkpoint_time < checkpoint_interval
    /\ file_change_count < activity_threshold

\* C24: a call of _state_changed with the file absent answers false and
\* keeps the remembered content; the first call that finds the file answers
\* false and remembers its content; every later call answers true exactly
\* when the content differs from the remembered one, and remembers the
\* content it found, so that the same content is not reported again.
C24_StickyComparator ==
    [][StateChangedCalled =>
          LET answer == cp'.reason = "STATE_CHANGE"
          IN IF state_file = NoFile
             THEN ~answer /\ last_state_hash' = last_state_hash
             ELSE /\ last_state_hash' = Md5(state_file[1])
                  /\ answer <=> /\ last_state_hash # NoHash
                                /\ last_state_hash # Md5(state_file[1])]_vars

\* _state_changed has reported a change of the ProgressRecord, and the file
\* has gone since.
C24_Witness ==
    /\ cp.reason = "STATE_CHANGE"
    /\ cp.pc = "create"
    /\ state_file = NoFile

\* C25: straight after a creation has written a checkpoint record, the
\* persisted ProgressRecord ends its checkpoints list with the summary of
\* that checkpoint, names it as last_known_good_state and has
\* rollback_available set.
C25_StateRecordsNewCheckpoint ==
    [][Len(created') = Len(created) + 1 =>
          LET checkpoint_id == created'[Len(created')].checkpoint_id
          IN /\ state_file' # NoFile
             /\ state_file'[1].checkpoints # <<>>
             /\ state_file'[1].checkpoints[Len(state_file'[1].checkpoints)].checkpoint_id
                    = checkpoint_id
             /\ state_file'[1].last_known_good_state = checkpoint_id
             /\ state_file'[1].rollback_available]_vars

\* C26: the number in a new checkpoint's id is one plus the number of
\* checkpoint files of the same prefix (AUTO_CP or CP) that are stored when
\* the creation begins.
C26_IdCountsSamePrefix ==
    [][Len(created') = Len(created) + 1 =>
          LET checkpoint_id == created'[Len(created')].checkpoint_id
              stored == {i \in 1..Len(checkpoints_dir) :
                            checkpoints_dir[i].name[1][1] = checkpoint_id[1]}
          IN checkpoint_id[2] = Cardinality(stored) + 1]_vars

\* C27: while the daemon runs and no stop was requested, neither loop has
\* returned, and a loop whose cycle is due or under way, raising or not,
\* comes to the wait at the end of that cycle, from where the next cycle
\* starts.
C27_LoopsSurviveExceptions ==
    /\ []((running /\ ~shutdown_event) => (cp.pc # "exited" /\ mon.pc # "exited"))
    /\ (cp.pc \in {"test", "create", "reset"} /\ ~(cp.pc = "test" /\ cp.wake > now))
          ~> (cp.pc = "test" /\ cp.wake > now)
    /\ (mon.pc \in {"init", "test", "scan", "add"} /\ ~(mon.pc = "test" /\ mon.wake > now))
          ~> (mon.pc = "test" /\ mon.wake > now)

\* A decision cycle that had fired was cut short by an exception, and the
\* loop waits for its next cycle.
C27_Witness ==
    /\ running
    /\ cp.pc = "test"
    /\ cp.reason # "none"
    /\ last_checkpoint_time # cp.current_time

\* C28: the decision cycle that follows a cycle whose creation failed
\* attempts the creation again.
C28_FailedCreationRetried ==
    [][(DecisionStep /\ cp.failed) => cp'.pc = "create"]_vars

\* C29: when the last validate_checkpoint call reported recovery_feasible,
\* the checkpoint was valid and every file it references exists and is
\* readable.
C29_FeasibleNeedsReadableFiles ==
    (last_validation.seq # 0 /\ last_validation.result.recovery_feasible) =>
        LET F == FilesWithId(last_validation.checkpoint_id)
            f == checkpoints_dir[CHOOSE i \in F : \A j \in F : i <= j]
        IN /\ F # {}
           /\ last_validation.result.valid
           /\ \A p \in f.files_modified :
                 project_files[p] \notin {"absent", "unreadable"}

\* C30: once the file loop of a recovery is over, every referenced file is
\* in exactly one of files_restored, files_failed and the "no snapshot"
\* messages; a file is without snapshot message only if it has a snapshot,
\* so a file with a snapshot whose copy did not fail was restored, also when
\* the copy of another file failed.
C30_FilesRestoredIndependently ==
    (rec.pc \in {"log", "done"} /\ rec.file # <<>> /\ rec.validation.recovery_feasible) =>
        LET referenced == ReferencedFiles(rec.file[1])
            restored == rec.result.files_restored
            failed == rec.result.files_failed
            unsnapped == rec.result.no_snapshot
        IN /\ restored \cup failed \cup unsnapped = referenced
           /\ restored \cap failed = {}
           /\ restored \cap unsnapped = {}
           /\ failed \cap unsnapped = {}
           /\ \A p \in unsnapped : <<rec.checkpoint_id, p>> \notin snapshots
           /\ rec.pc = "log" => \A p \in restored : project_files[p] = "snapshot"

\* A recovery restored one file although the copy of another one failed.
C30_Witness ==
    /\ rec.pc = "done"
    /\ rec.result.files_failed # {}
    /\ rec.result.files_restored # {}

\* C31: when the state restore of a recovery failed, state_restored is
\* false, the live ProgressRecord is what it was before the call, the file
\* loop has gone through every referenced file, and success is false.
C31_RestoreFailureLeavesRecord ==
    (/\ rec.pc \in {"files", "log", "done"}
     /\ rec.validation.recovery_feasible
     /\ ~rec.result.state_restored) =>
        /\ state_file = rec.pre[1]
        /\ rec.pc \in {"log", "done"} =>
               rec.result.files_restored \cup rec.result.files_failed
                  \cup rec.result.no_snapshot = ReferencedFiles(rec.file[1])
        /\ rec.pc = "done" => ~rec.result.success

\* C31, the case the claim names: the restore failed for a checkpoint whose
\* embedded state lacks a section the stamping writes to.
C31_MissingSectionLeavesRecord ==
    (/\ rec.pc \in {"files", "log", "done"}
     /\ rec.validation.recovery_feasible
     /\ StampRaises(rec.file[1].full_state)) =>
        /\ ~rec.result.state_restored
        /\ state_file = rec.pre[1]

\* C32: when one unlink of a retention pruning failed, every other excess
\* checkpoint of that pruning has been deleted.
C32_PruneBestEffortPerFile ==
    last_cleanup.failAt # 0 =>
        LET old_checkpoints == OldCheckpoints(last_cleanup.before, last_cleanup.max)
        IN \A i \in 1..Len(old_checkpoints) :
              i # last_cleanup.failAt =>
                  old_checkpoints[i].name \notin Names(last_cleanup.after)

\* C33: no step overwrites or deletes a backup file: every backup present
\* before a step is present, with the same content, after it.
C33_BackupsWriteOnce ==
    [][\A b \in backups : b \in backups']_vars

\* C34: a rebuild_from_files call that writes the synthesized record over
\* an existing ProgressRecord does so after its archive step, and a backup
\* whose content is that ProgressRecord exists at the moment of the write;
\* the record written is tagged FILE_ANALYSIS; and a call whose archive copy
\* failed returns with the live ProgressRecord as it was.
C34_RebuildArchivesFirst ==
    [][/\ (rec.pc \in {"rebuild", "rebuilt"} /\ state_file' # state_file) =>
             /\ rec.backup_done
             /\ state_file'[1].reconstruction_source = "FILE_ANALYSIS"
             /\ state_file # NoFile =>
                    \E b \in backups : b.content = state_file[1]
       /\ (rec'.pc = "rebuilt" /\ ~rec'.backup_done) =>
             /\ state_file' = rec'.pre[1]
             /\ ~rec'.result.success]_vars

\* C34 witness: a rebuild has written the synthesized record over a
\* ProgressRecord that existed before the call.
C34_Witness ==
    /\ rec.pc = "rebuilt"
    /\ rec.result.success
    /\ rec.pre[1] # NoFile
    /\ state_file # rec.pre[1]
    /\ \E b \in backups : b.content = rec.pre[1][1]

\* C35: once stop is requested both loops exit; a stop() call returns, with
\* the daemon STOPPED; and at the return of stop() no creation is between
\* the write of its checkpoint file and the write of the ProgressRecord.
C35_StopQuiesces ==
    /\ shutdown_event ~> (cp.pc = "exited" /\ mon.pc = "exited")
    /\ (pc["force"] = "join") ~> (pc["force"] = "idle")
    /\ [][(pc["force"] = "join" /\ pc'["force"] = "idle") =>
             (~running' /\ cp.pc # "save")]_vars

\* C35, the parts about termination: the loops exit and stop() returns
\* with the daemon STOPPED.
C35_LoopsExitAndStopReturns ==
    /\ shutdown_event ~> (cp.pc = "exited" /\ mon.pc = "exited")
    /\ (pc["force"] = "join") ~> (pc["force"] = "idle")
    /\ [][(pc["force"] = "join" /\ pc'["force"] = "idle") => ~running']_vars

\* C36: once the daemon runs again after a stop, then, unless it is stopped
\* again, the second decision loop takes a decision and the second scan
\* loop scans.
C36_RestartRunsLoops ==
    /\ (running /\ cp.thread = 2) ~> (~running \/ (cp.thread = 2 /\ cp.wake > 0))
    /\ (running /\ mon.thread = 2) ~> (~running \/ (mon.thread = 2 /\ mon.pc = "scan"))

\* C36 as a state property: while the restarted daemon is RUNNING its loops
\* have not returned.
C36_RestartedLoopsAlive ==
    (running /\ cp.thread = 2) => (cp.pc # "exited" /\ mon.pc # "exited")

\* C37: when a recover_from_checkpoint call that logged returns, the entry
\* it appended to the recovery log has the success value and the numbers of
\* restored and failed files of the result it returns.
C37_LogMatchesResult ==
    (rec.pc = "done" /\ Len(recovery_log) > Len(rec.pre[4])) =>
        LET entry == recovery_log[Len(recovery_log)]
        IN /\ entry.success = rec.result.success
           /\ entry.files_restored = Cardinality(rec.result.files_restored)
           /\ entry.files_failed = Cardinality(rec.result.files_failed)

\* C37, the counts alone.
C37_LogCountsMatchResult ==
    (rec.pc = "done" /\ Len(recovery_log) > Len(rec.pre[4])) =>
        LET entry == recovery_log[Len(recovery_log)]
        IN /\ entry.files_restored = Cardinality(rec.result.files_restored)
           /\ entry.files_failed = Cardinality(rec.result.files_failed)

\* C38: when no creation is in progress, every checkpoint written so far
\* has its summary (its id and trigger) in the checkpoints list of the
\* persisted ProgressRecord.
C38_NoSummaryLost ==
    (\A t \in Threads : pc[t] = "idle") =>
        \A i \in 1..Len(created) :
           /\ state_file # NoFile
           /\ \E j \in 1..Len(state_file[1].checkpoints) :
                 /\ state_file[1].checkpoints[j].checkpoint_id = created[i].checkpoint_id
                 /\ Lower(state_file[1].checkpoints[j].trigger) = created[i].name[3]

\* C39: a checkpoint_save call that returns status ERROR has written no
\* checkpoint file and has left the persisted ProgressRecord as it was.
C39_SaveAllOrNothing ==
    [][(/\ rec.pc = "idle" /\ rec'.pc = "idle"
        /\ SaveRaises(LoadProgressState(state_file, now))) =>
           UNCHANGED <<checkpoints_dir, state_file>>]_vars

\* C39, the ProgressRecord alone.
C39_ErrorLeavesRecord ==
    [][(/\ rec.pc = "idle" /\ rec'.pc = "idle"
        /\ SaveRaises(LoadProgressState(state_file, now))) =>
           UNCHANGED state_file]_vars

\* C40: whenever the live ProgressRecord says rollback_available, the store
\* holds a checkpoint file of the id in last_known_good_state.
C40_RollbackTargetExists ==
    (/\ state_file # NoFile
     /\ state_file # <<Truncated>>
     /\ state_file[1].rollback_available) =>
        \E i \in 1..Len(checkpoints_dir) :
           checkpoints_dir[i].name[1] = state_file[1].last_known_good_state

====
